---------------------------- MODULE Spec2Model ----------------------------
(***************************************************************************)
(* A model of the memory subsystem of the reflective wellness coach:       *)
(* the fact extractor and profile merge of backend/chains/                 *)
(* conversation_chain.py, the long-term memory manager of backend/memory/  *)
(* memory_manager.py and the task store of backend/todo/task_manager.py.   *)
(*                                                                         *)
(* Text is a sequence of one-character strings, so that the substring,     *)
(* split, strip and title operations of the code are computed and not      *)
(* assumed.  A Python dict is a function whose domain is its key set.      *)
(***************************************************************************)
EXTENDS Integers, Sequences, FiniteSets, TLC

VARIABLES
    call,           \* the invocation of an operation that runs in one step
    ret,            \* what that invocation returned (NoRet before it ran)
    user_profile,   \* the user_profile collection: id -> [document, metadata]
    important_memories, \* the important_memories collection, which holds the tasks
    mood_data,      \* the mood_data collection
    journals,       \* the journals collection
    reflections,    \* the reflections collection
    sos_requests,   \* the sos_requests collection
    short_term_memory, \* the messages of the conversation buffer
    worker,         \* per request thread: its position and its local variables
    clock,          \* datetime.now(): the next timestamp
    requests,       \* how many requests were accepted so far
    faults          \* how many store calls raised so far

pureVars == <<call, ret>>
taskVars == <<important_memories>>
chatVars == <<user_profile, worker>>
moodVars == <<mood_data>>
journalVars == <<journals>>
reflectionVars == <<reflections, sos_requests>>
bufferVars == <<short_term_memory>>
storeVars == <<user_profile, important_memories, mood_data, journals, reflections,
               sos_requests, short_term_memory, worker, clock, requests, faults>>
vars == <<call, ret, user_profile, important_memories, mood_data, journals, reflections,
          sos_requests, short_term_memory, worker, clock, requests, faults>>

NoRet == [none |-> TRUE]
NoCall == [op |-> "none"]

---------------------------------------------------------------------------
(* Bounds of the model. *)

\* how many vocabulary fragments a generated chat message is made of
MaxFragments == 3
\* similarity distances are 0..MaxDistance
MaxDistance == 2
\* get_relevant_memories is asked for 0..MaxResults results
MaxResults == 4
\* how many requests the server accepts in a run
MaxRequests == 2
\* how many store calls may raise in a run
MaxFaults == 2
\* how many task requests the server accepts in a run
MaxTaskCalls == 4
\* how many mood requests the server accepts in a run
MaxMoodCalls == 2
\* how many journal requests the server accepts in a run
MaxJournalCalls == 3
\* how many records a collection read in bulk holds
MaxRecords == 3
\* how many reflection requests the server accepts in a run
MaxReflectionCalls == 3
\* how many requests of any kind the server accepts in a run that mixes them
MaxStoreCalls == 3

---------------------------------------------------------------------------
(* Python str operations, on sequences of characters. *)

LowerLetters == <<"a", "b", "c", "d", "e", "f", "g", "h", "i", "j", "k", "l", "m",
                  "n", "o", "p", "q", "r", "s", "t", "u", "v", "w", "x", "y", "z">>
UpperLetters == <<"A", "B", "C", "D", "E", "F", "G", "H", "I", "J", "K", "L", "M",
                  "N", "O", "P", "Q", "R", "S", "T", "U", "V", "W", "X", "Y", "Z">>

Whitespace == {" ", "\t", "\n"}

IsLower(c) == \E i \in 1..Len(LowerLetters) : LowerLetters[i] = c
IsUpper(c) == \E i \in 1..Len(UpperLetters) : UpperLetters[i] = c
IsLetter(c) == IsLower(c) \/ IsUpper(c)

LowerChar(c) ==
    IF IsUpper(c)
    THEN LowerLetters[CHOOSE i \in 1..Len(UpperLetters) : UpperLetters[i] = c]
    ELSE c

UpperChar(c) ==
    IF IsLower(c)
    THEN UpperLetters[CHOOSE i \in 1..Len(LowerLetters) : LowerLetters[i] = c]
    ELSE c

\* str.lower()
Lower(s) == [i \in 1..Len(s) |-> LowerChar(s[i])]

\* str.strip(): leading and trailing whitespace removed
Strip(s) ==
    LET keep == {i \in 1..Len(s) : s[i] \notin Whitespace}
    IN  IF keep = {} THEN <<>>
        ELSE SubSeq(s, CHOOSE i \in keep : \A j \in keep : i <= j,
                       CHOOSE i \in keep : \A j \in keep : i >= j)

\* str.title(): a letter that follows a non-letter (or starts the text) is
\* upper-cased, every other letter is lower-cased
Title(s) ==
    [i \in 1..Len(s) |->
        IF ~IsLetter(s[i]) THEN s[i]
        ELSE IF i = 1 \/ ~IsLetter(s[i - 1]) THEN UpperChar(s[i])
        ELSE LowerChar(s[i])]

\* p occurs in s at position i
OccursAt(p, s, i) ==
    /\ i >= 1
    /\ i + Len(p) - 1 <= Len(s)
    /\ \A k \in 1..Len(p) : s[i + k - 1] = p[k]

\* str.startswith(p)
StartsWith(s, p) == OccursAt(p, s, 1)

\* str.find(p) + 1: the position of the first occurrence of p in s, 0 if none
Find(p, s) ==
    LET occ == {i \in 1..Len(s) : OccursAt(p, s, i)}
    IN  IF occ = {} THEN 0 ELSE CHOOSE i \in occ : \A j \in occ : i <= j

\* p in s
Contains(p, s) == Find(p, s) # 0

\* s.split(p, 1)[1]: what follows the first occurrence of p (p occurs in s)
AfterFirst(p, s) == SubSeq(s, Find(p, s) + Len(p), Len(s))

---------------------------------------------------------------------------
(* Python values: a str, or a list of str. *)

Str(s) == [kind |-> "str", v |-> s]
List(l) == [kind |-> "list", v |-> l]
IsList(x) == x.kind = "list"

EmptyDict == [k \in {} |-> NoRet]
DictSet(d, k, x) == [j \in DOMAIN d \cup {k} |-> IF j = k THEN x ELSE d[j]]
\* the truth value of a dict: it is not empty
Truthy(d) == DOMAIN d # {}

---------------------------------------------------------------------------
(* The store and the request threads after construction: every collection  *)
(* is empty and no request is running.                                     *)

\* the request threads: two requests can be in progress at once
Workers == {1, 2}

EmptyCollection == [id \in {} |-> NoRet]

IdleWorker ==
    [pc |-> "idle", message |-> 0, new_facts |-> EmptyDict,
     existing_profile |-> NoRet, profile_data |-> EmptyDict,
     existing |-> NoRet, timestamp |-> 0, result |-> NoRet]

StoreAtStart ==
    /\ user_profile = EmptyCollection
    /\ important_memories = EmptyCollection
    /\ mood_data = EmptyCollection
    /\ journals = EmptyCollection
    /\ reflections = EmptyCollection
    /\ sos_requests = EmptyCollection
    /\ short_term_memory = <<>>
    /\ worker = [w \in Workers |-> IdleWorker]
    /\ clock = 0
    /\ requests = 0
    /\ faults = 0

---------------------------------------------------------------------------
(* ConversationChain._extract_user_facts *)

StoreThisColon == <<"s", "t", "o", "r", "e", " ", "t", "h", "i", "s", ":">>
StoreThisSpaceColon == <<"s", "t", "o", "r", "e", " ", "t", "h", "i", "s", " ", ":">>
KwNameIs == <<"n", "a", "m", "e", " ", "i", "s">>
KwDog == <<"d", "o", "g">>
KwCat == <<"c", "a", "t">>
KwLike == <<"l", "i", "k", "e">>
KwEnjoy == <<"e", "n", "j", "o", "y">>

\* the literal heads of the two name patterns, in the order of name_patterns;
\* each is followed by the group ([a-zA-Z\s]+)
name_patterns == << <<"m", "y", " ", "n", "a", "m", "e", " ", "i", "s", " ">>,
                    <<"c", "a", "l", "l", " ", "m", "e", " ">> >>

\* the character class [a-zA-Z\s]
InNameClass(c) == IsLetter(c) \/ c \in Whitespace

\* re.search(head + "([a-zA-Z\s]+)", s): the start of the leftmost match, 0 if
\* there is none
SearchStart(head, s) ==
    LET m == {i \in 1..Len(s) :
                /\ OccursAt(head, s, i)
                /\ i + Len(head) <= Len(s)
                /\ InNameClass(s[i + Len(head)])}
    IN  IF m = {} THEN 0 ELSE CHOOSE i \in m : \A j \in m : i <= j

\* match.group(1): the longest run of class characters after the head
SearchGroup(head, s) ==
    LET from == SearchStart(head, s) + Len(head)
        last == CHOOSE e \in from..Len(s) :
                    /\ \A k \in from..e : InNameClass(s[k])
                    /\ e = Len(s) \/ ~InNameClass(s[e + 1])
    IN  SubSeq(s, from, last)

\* the branch taken for a "store this:" message, on the text after the colon
StoreThisFacts(fact_text) ==
    IF Contains(KwDog, fact_text) /\ Contains(KwNameIs, fact_text)
    THEN DictSet(EmptyDict, "pets",
                 List(<<Title(Strip(AfterFirst(KwNameIs, fact_text)))>>))
    ELSE IF Contains(KwCat, fact_text) /\ Contains(KwNameIs, fact_text)
    THEN DictSet(EmptyDict, "pets",
                 List(<<Title(Strip(AfterFirst(KwNameIs, fact_text)))>>))
    ELSE IF Contains(KwLike, fact_text) \/ Contains(KwEnjoy, fact_text)
    THEN DictSet(EmptyDict, "support_preferences",
                 List(<<IF Contains(KwLike, fact_text)
                        THEN Strip(AfterFirst(KwLike, fact_text))
                        ELSE Strip(AfterFirst(KwEnjoy, fact_text))>>))
    ELSE DictSet(EmptyDict, "notes", List(<<fact_text>>))

\* a variant that accepts a name of one character
ApplyNamePattern_AnyLength(facts, head, message_lower) ==
    IF SearchStart(head, message_lower) = 0 THEN facts
    ELSE LET name == Title(Strip(SearchGroup(head, message_lower)))
         IN  IF Len(name) > 0 THEN DictSet(facts, "name", Str(name)) ELSE facts

\* one turn of the loop over name_patterns
ApplyNamePattern(facts, head, message_lower) ==
    IF SearchStart(head, message_lower) = 0 THEN facts
    ELSE LET name == Title(Strip(SearchGroup(head, message_lower)))
         IN  IF Len(name) > 1 THEN DictSet(facts, "name", Str(name)) ELSE facts

RECURSIVE NamePatternLoop(_, _, _)
NamePatternLoop(facts, i, message_lower) ==
    IF i > Len(name_patterns) THEN facts
    ELSE NamePatternLoop(ApplyNamePattern(facts, name_patterns[i], message_lower),
                         i + 1, message_lower)

IsStoreThis(message_lower) ==
    \/ StartsWith(message_lower, StoreThisColon)
    \/ StartsWith(message_lower, StoreThisSpaceColon)

\* a variant that does not return after the "store this:" branch
ExtractUserFacts_NoReturn(message) ==
    LET message_lower == Strip(Lower(message))
    IN  IF IsStoreThis(message_lower)
        THEN NamePatternLoop(StoreThisFacts(Strip(AfterFirst(<<":">>, message_lower))),
                             1, message_lower)
        ELSE NamePatternLoop(EmptyDict, 1, message_lower)

ExtractUserFacts(message) ==
    LET message_lower == Strip(Lower(message))
    IN  IF IsStoreThis(message_lower)
        THEN StoreThisFacts(Strip(AfterFirst(<<":">>, message_lower)))
        ELSE NamePatternLoop(EmptyDict, 1, message_lower)

---------------------------------------------------------------------------
(* The chat messages the extractor is run on: an optional "store this"     *)
(* head followed by up to MaxFragments fragments.                          *)

Heads == { <<>>,
           <<"S", "t", "o", "r", "e", " ", "t", "h", "i", "s", ":", " ">>,
           <<" ", "s", "t", "o", "r", "e", " ", "T", "H", "I", "S", " ", ":">> }

Fragments == { <<"m", "y", " ", "d", "o", "g">>,
               <<"m", "y", " ", "c", "a", "t">>,
               <<"'", "s", " ", "n", "a", "m", "e", " ", "i", "s", " ">>,
               <<"B", "r", "u", "n", "o">>,
               <<"i", " ", "l", "i", "k", "e", " ">>,
               <<" ", "e", "n", "j", "o", "y", " ", "t", "e", "a">>,
               <<"M", "y", " ", "n", "a", "m", "e", " ", "i", "s", " ">>,
               <<" ", "c", "a", "l", "l", " ", "m", "e", " ", "J", "o">>,
               <<"a", ",">> }

RECURSIVE Phrases(_)
Phrases(n) ==
    IF n = 0 THEN {<<>>}
    ELSE Phrases(n - 1) \cup {p \o f : p \in Phrases(n - 1), f \in Fragments}

Messages == {h \o p : h \in Heads, p \in Phrases(MaxFragments)}

---------------------------------------------------------------------------
(* The extractor as a specification: any message, then its delta. *)

InitExtract ==
    /\ call \in [op : {"_extract_user_facts"}, message : Messages]
    /\ ret = NoRet
    /\ StoreAtStart

extract_user_facts ==
    /\ call.op = "_extract_user_facts"
    /\ ret = NoRet
    /\ ret' = [facts |-> ExtractUserFacts(call.message)]
    /\ UNCHANGED <<call, storeVars>>

NextExtract == extract_user_facts

SpecExtract == InitExtract /\ [][NextExtract]_vars

---------------------------------------------------------------------------
(* MemoryManager.get_relevant_memories *)

\* the collections searched, in the order of the list at lines 215-219
SearchedCollections == <<"reflections", "important_memories", "user_profile">>

\* n_results=min(n_results, 3): at most 3 hits are asked of each collection
PerCollection == 3

Min(a, b) == IF a <= b THEN a ELSE b

\* collection.query(query_texts, n_results=k) answers with at most k hits,
\* nearest first, or raises
RECURSIVE AscendingRuns(_)
AscendingRuns(k) ==
    IF k = 0 THEN {<<>>}
    ELSE AscendingRuns(k - 1) \cup
         {Append(s, d) : s \in {r \in AscendingRuns(k - 1) : Len(r) = k - 1},
                         d \in 0..MaxDistance}
QueryAnswers(k) ==
    {[raised |-> TRUE, distances |-> <<>>]} \cup
    {[raised |-> FALSE, distances |-> s] :
        s \in {r \in AscendingRuns(k) :
                  \A i \in 1..(Len(r) - 1) : r[i] <= r[i + 1]}}

\* the entries appended for one collection (lines 228-240): nothing when the
\* query raised; content stands for the document at that rank of the answer
HitsOf(collection_name, answer) ==
    IF answer.raised THEN <<>>
    ELSE [i \in 1..Len(answer.distances) |->
            [content |-> i, collection |-> collection_name,
             distance |-> answer.distances[i]]]

RECURSIVE CollectHits(_, _)
CollectHits(answers, i) ==
    IF i > Len(SearchedCollections) THEN <<>>
    ELSE HitsOf(SearchedCollections[i], answers[SearchedCollections[i]])
         \o CollectHits(answers, i + 1)

\* a variant of the insertion that puts a hit before the hits of equal distance
InsertByDistance_BeforeTies(sorted, x) ==
    LET before == {i \in 1..Len(sorted) : sorted[i].distance < x.distance}
        k == Cardinality(before)
    IN  SubSeq(sorted, 1, k) \o <<x>> \o SubSeq(sorted, k + 1, Len(sorted))

\* list.sort(key=distance) is stable: a hit goes after every hit whose
\* distance is less than or equal to its own
InsertByDistance(sorted, x) ==
    LET before == {i \in 1..Len(sorted) : sorted[i].distance <= x.distance}
        k == Cardinality(before)
    IN  SubSeq(sorted, 1, k) \o <<x>> \o SubSeq(sorted, k + 1, Len(sorted))

RECURSIVE SortByDistance(_)
SortByDistance(hits) ==
    IF hits = <<>> THEN <<>>
    ELSE InsertByDistance(SortByDistance(SubSeq(hits, 1, Len(hits) - 1)),
                          hits[Len(hits)])

GetRelevantMemories(n_results, answers) ==
    LET relevant_memories == SortByDistance(CollectHits(answers, 1))
    IN  SubSeq(relevant_memories, 1, Min(n_results, Len(relevant_memories)))

InitRank ==
    /\ \E n \in 0..MaxResults :
         call \in [op : {"get_relevant_memories"}, n_results : {n},
                   answers : [{SearchedCollections[i] : i \in 1..Len(SearchedCollections)}
                                -> QueryAnswers(Min(n, PerCollection))]]
    /\ ret = NoRet
    /\ StoreAtStart

get_relevant_memories ==
    /\ call.op = "get_relevant_memories"
    /\ ret = NoRet
    /\ ret' = [memories |-> GetRelevantMemories(call.n_results, call.answers)]
    /\ UNCHANGED <<call, storeVars>>

NextRank == get_relevant_memories

SpecRank == InitRank /\ [][NextRank]_vars

---------------------------------------------------------------------------
(* The profile: ConversationChain._store_user_facts and                    *)
(* MemoryManager.get_user_profile / update_user_profile.                   *)

Elements(l) == {l[i] : i \in 1..Len(l)}

\* the orders in which a set can be listed
Orderings(S) ==
    {s \in [1..Cardinality(S) -> S] :
        \A i, j \in 1..Cardinality(S) : i # j => s[i] # s[j]}

\* a variant that concatenates without removing duplicates
MergedLists_Concat(existing, value) == {List(existing \o value)}

\* list(set(existing + value)): the elements of both lists, each once, in
\* whatever order the set iterates
MergedLists(existing, value) ==
    {List(s) : s \in Orderings(Elements(existing \o value))}

\* profile_data.get(key, []), replaced by [] when it is not a list
ExistingList(profile_data, key) ==
    IF key \in DOMAIN profile_data /\ IsList(profile_data[key])
    THEN profile_data[key].v
    ELSE <<>>

\* the values profile_data[key] can have after the loop of lines 416-426
MergeChoices(profile_data, facts, key) ==
    IF key \in DOMAIN facts
    THEN IF IsList(facts[key])
         THEN MergedLists(ExistingList(profile_data, key), facts[key].v)
         ELSE {facts[key]}
    ELSE {profile_data[key]}

\* a variant that keeps only the delta
MergeFacts_DeltaOnly(profile_data, facts) ==
    {d \in [DOMAIN facts -> UNION {MergeChoices(EmptyDict, facts, k) : k \in DOMAIN facts}] :
        \A k \in DOMAIN facts : d[k] \in MergeChoices(EmptyDict, facts, k)}

\* the maps profile_data can be after the loop of lines 416-426
MergeFacts(profile_data, facts) ==
    LET keys == DOMAIN profile_data \cup DOMAIN facts
    IN  {d \in [keys -> UNION {MergeChoices(profile_data, facts, k) : k \in keys}] :
            \A k \in keys : d[k] \in MergeChoices(profile_data, facts, k)}

\* json.dumps / json.loads: a document is the JSON text of a value
JsonDumps(value) == [json |-> value]
JsonLoads(document) == document.json
\* a stored document that is not JSON text, and whether json.loads accepts
\* a document
Corrupt == [text |-> "not json"]
JsonParses(document) == "json" \in DOMAIN document

\* datetime.now(timezone.utc).isoformat() at time t
IsoFormat(t) == Str(<<t>>)

\* a variant that draws an unused id for every call, as the other save
\* operations do with uuid4
profile_id_new ==
    CHOOSE id \in {"uuid-1", "uuid-2", "uuid-3", "uuid-4"} : id \notin DOMAIN user_profile

profile_id == "user_profile_main"

\* collection.get(ids=[id])
Get(collection, id) ==
    IF id \in DOMAIN collection
    THEN [ids |-> <<id>>, documents |-> <<collection[id].document>>,
          metadatas |-> <<collection[id].metadata>>]
    ELSE [ids |-> <<>>, documents |-> <<>>, metadatas |-> <<>>]

\* the collection after add (id absent) or update (id present) of one record
Put(collection, id, document, metadata) ==
    [j \in DOMAIN collection \cup {id} |->
        IF j = id THEN [document |-> document, metadata |-> metadata]
        ELSE collection[j]]

\* whether the next store call raises
FaultChoices == IF faults < MaxFaults THEN BOOLEAN ELSE {FALSE}

\* get_user_profile when the store raised (line 362)
GetUserProfileError == [exists |-> FALSE, error |-> TRUE]

\* a variant that treats a profile that was never created as an error
GetUserProfile_AbsentIsError(results) ==
    IF results.documents # <<>>
    THEN [profile |-> JsonLoads(results.documents[1]),
          metadata |-> results.metadatas[1], exists |-> TRUE]
    ELSE [exists |-> FALSE, error |-> TRUE]

\* get_user_profile on the answer of collection.get (lines 348-358)
GetUserProfile(results) ==
    IF results.documents # <<>>
    THEN [profile |-> JsonLoads(results.documents[1]),
          metadata |-> results.metadatas[1], exists |-> TRUE]
    ELSE [exists |-> FALSE, profile |-> EmptyDict]

\* existing_profile.get("profile", {})
ProfileOf(existing_profile) ==
    IF "profile" \in DOMAIN existing_profile THEN existing_profile.profile
    ELSE EmptyDict

\* the metadata update_user_profile writes (lines 294-302)
ProfileMetadata(timestamp) ==
    [id |-> profile_id, timestamp |-> IsoFormat(timestamp), type |-> "user_profile",
     last_updated |-> IsoFormat(timestamp)]

\* the messages sent to /api/chat
ChatMessages ==
    << <<"S", "t", "o", "r", "e", " ", "t", "h", "i", "s", ":", " ", "m", "y", " ", "d",
         "o", "g", "'", "s", " ", "n", "a", "m", "e", " ", "i", "s", " ", "B", "r", "u",
         "n", "o">>,
       <<"s", "t", "o", "r", "e", " ", "t", "h", "i", "s", ":", " ", "m", "y", " ", "c",
         "a", "t", "'", "s", " ", "n", "a", "m", "e", " ", "i", "s", " ", "T", "o", "m">>,
       <<"M", "y", " ", "n", "a", "m", "e", " ", "i", "s", " ", "a">> >>

\* the profiles update_user_profile is called with directly
ProfileArgs ==
    { DictSet(EmptyDict, "name", Str(<<"J", "o">>)),
      DictSet(EmptyDict, "pets", List(<< <<"R", "e", "x">> >>)) }

\* POST /api/chat: a thread takes the request and enters process_message
chat(w) ==
    /\ worker[w].pc = "idle"
    /\ requests < MaxRequests
    /\ \E m \in 1..Len(ChatMessages) :
         worker' = [worker EXCEPT ![w] = [IdleWorker EXCEPT !.pc = "process_message",
                                                            !.message = m]]
    /\ requests' = requests + 1
    /\ UNCHANGED <<user_profile, clock, faults, pureVars,
                   taskVars, moodVars, journalVars, reflectionVars, bufferVars>>

\* a direct call update_user_profile(profile_data)
update_user_profile(w) ==
    /\ worker[w].pc = "idle"
    /\ requests < MaxRequests
    /\ \E p \in ProfileArgs :
         worker' = [worker EXCEPT ![w] = [IdleWorker EXCEPT !.pc = "update_get",
                                                            !.profile_data = p]]
    /\ requests' = requests + 1
    /\ UNCHANGED <<user_profile, clock, faults, pureVars,
                   taskVars, moodVars, journalVars, reflectionVars, bufferVars>>

\* process_message up to the test of new_facts (lines 161-184): the reads for
\* the prompt change nothing; the delta is extracted
process_message(w) ==
    /\ worker[w].pc = "process_message"
    /\ LET new_facts == ExtractUserFacts(ChatMessages[worker[w].message])
       IN  worker' = [worker EXCEPT ![w].new_facts = new_facts,
                                    ![w].pc = IF Truthy(new_facts) THEN "store_user_facts"
                                              ELSE "predict"]
    /\ UNCHANGED <<user_profile, clock, requests, faults, pureVars,
                   taskVars, moodVars, journalVars, reflectionVars, bufferVars>>

\* _store_user_facts up to the call of update_user_profile (lines 412-427):
\* the profile is read, the delta merged into it and last_updated stamped
store_user_facts(w) ==
    /\ worker[w].pc = "store_user_facts"
    /\ Truthy(worker[w].new_facts)
    /\ \E raised \in FaultChoices :
         LET existing_profile == IF raised THEN GetUserProfileError
                                 ELSE GetUserProfile(Get(user_profile, profile_id))
         IN  /\ \E merged \in MergeFacts(ProfileOf(existing_profile), worker[w].new_facts) :
                   worker' = [worker EXCEPT
                       ![w].existing_profile = existing_profile,
                       ![w].profile_data = DictSet(merged, "last_updated", IsoFormat(clock)),
                       ![w].pc = "update_get"]
             /\ faults' = IF raised THEN faults + 1 ELSE faults
    /\ clock' = clock + 1
    /\ UNCHANGED <<user_profile, requests, pureVars,
                   taskVars, moodVars, journalVars, reflectionVars, bufferVars>>

\* update_user_profile up to the existence check (lines 288-307)
update_get(w) ==
    /\ worker[w].pc = "update_get"
    /\ \E raised \in FaultChoices :
         LET existing == IF raised THEN NoRet ELSE Get(user_profile, profile_id)
         IN  /\ worker' = [worker EXCEPT
                     ![w].existing = existing,
                     ![w].timestamp = clock,
                     ![w].pc = IF raised THEN "update_fallback"
                               ELSE IF existing.ids # <<>> THEN "update_update"
                               ELSE "update_add"]
             /\ faults' = IF raised THEN faults + 1 ELSE faults
    /\ clock' = clock + 1
    /\ UNCHANGED <<user_profile, requests, pureVars,
                   taskVars, moodVars, journalVars, reflectionVars, bufferVars>>

\* where update_user_profile returns to: its direct caller, or process_message
AfterUpdate(w) == IF worker[w].message = 0 THEN "returned" ELSE "predict"

\* one write of the profile record: add wants the id absent, update wants it
\* present; a write that cannot be done, or a store fault, raises
ProfileWrite(w, raised, wants_present, on_error) ==
    IF ~raised /\ ((profile_id \in DOMAIN user_profile) <=> wants_present)
    THEN /\ user_profile' = Put(user_profile, profile_id,
                                JsonDumps(worker[w].profile_data),
                                ProfileMetadata(worker[w].timestamp))
         /\ worker' = [worker EXCEPT
                 ![w].result = [updated |-> TRUE, timestamp |-> IsoFormat(worker[w].timestamp),
                                profile_id |-> profile_id],
                 ![w].pc = AfterUpdate(w)]
    ELSE /\ user_profile' = user_profile
         /\ worker' = [worker EXCEPT
                 ![w].result = IF on_error = "return"
                               THEN [updated |-> FALSE, error |-> TRUE]
                               ELSE worker[w].result,
                 ![w].pc = IF on_error = "return" THEN AfterUpdate(w) ELSE on_error]

\* the profile exists: collection.update (lines 308-313)
update_update(w) ==
    /\ worker[w].pc = "update_update"
    /\ \E raised \in FaultChoices :
         /\ ProfileWrite(w, raised, TRUE, "update_fallback")
         /\ faults' = IF raised THEN faults + 1 ELSE faults
    /\ UNCHANGED <<clock, requests, pureVars,
                   taskVars, moodVars, journalVars, reflectionVars, bufferVars>>

\* the profile does not exist: collection.add (lines 314-320)
update_add(w) ==
    /\ worker[w].pc = "update_add"
    /\ \E raised \in FaultChoices :
         /\ ProfileWrite(w, raised, FALSE, "update_fallback")
         /\ faults' = IF raised THEN faults + 1 ELSE faults
    /\ UNCHANGED <<clock, requests, pureVars,
                   taskVars, moodVars, journalVars, reflectionVars, bufferVars>>

\* a variant in which a raise of the second add is not caught by the outer
\* handler: the call is left without a result
update_fallback_Uncaught(w) ==
    /\ worker[w].pc = "update_fallback"
    /\ \E raised \in FaultChoices :
         /\ ProfileWrite(w, raised, FALSE, "raised")
         /\ faults' = IF raised THEN faults + 1 ELSE faults
    /\ UNCHANGED <<clock, requests, pureVars,
                   taskVars, moodVars, journalVars, reflectionVars, bufferVars>>

\* the check, the update or the add raised: collection.add again (lines
\* 321-327); if that raises too, the outer handler returns updated False
update_fallback(w) ==
    /\ worker[w].pc = "update_fallback"
    /\ \E raised \in FaultChoices :
         /\ ProfileWrite(w, raised, FALSE, "return")
         /\ faults' = IF raised THEN faults + 1 ELSE faults
    /\ UNCHANGED <<clock, requests, pureVars,
                   taskVars, moodVars, journalVars, reflectionVars, bufferVars>>

\* _generate_memory_feedback: one sentence for each of the four keys it
\* knows that is in the delta, written here as the facts the text names
MemoryFeedback(facts) ==
    [k \in DOMAIN facts \cap {"name", "pets", "support_preferences", "notes"} |->
        facts[k]]

\* _get_error_response
ErrorResponse == [error |-> TRUE, feedback |-> EmptyDict]

\* the messages add_message_to_short_term appends for a chat message
HumanMessage(m) == [role |-> "human", content |-> m]
AIMessage(m) == [role |-> "ai", content |-> m]

\* a variant that appends the user message before the model is called
predict_HalfTurn(w) ==
    /\ worker[w].pc = "predict"
    /\ short_term_memory' = Append(short_term_memory, HumanMessage(worker[w].message))
    /\ \E model_raised \in BOOLEAN :
         IF model_raised
         THEN /\ ret' = ErrorResponse
              /\ worker' = [worker EXCEPT ![w] = IdleWorker]
         ELSE /\ worker' = [worker EXCEPT ![w].pc = "add_ai_message"]
              /\ UNCHANGED ret
    /\ UNCHANGED <<user_profile, clock, requests, faults, call,
                   taskVars, moodVars, journalVars, reflectionVars>>

\* process_message from the feedback text to the first append (lines
\* 186-205 and add_message_to_short_term line 87): the model is called; if
\* it raises, the error response is returned and the thread is free again;
\* otherwise the user message is appended to the buffer
predict(w) ==
    /\ worker[w].pc = "predict"
    /\ \E model_raised \in BOOLEAN :
         IF model_raised
         THEN /\ ret' = ErrorResponse
              /\ worker' = [worker EXCEPT ![w] = IdleWorker]
              /\ UNCHANGED short_term_memory
         ELSE /\ short_term_memory' =
                    Append(short_term_memory, HumanMessage(worker[w].message))
              /\ worker' = [worker EXCEPT ![w].pc = "add_ai_message"]
              /\ UNCHANGED ret
    /\ UNCHANGED <<user_profile, clock, requests, faults, call,
                   taskVars, moodVars, journalVars, reflectionVars>>

\* a variant that appends the reply twice
add_ai_message_Twice(w) ==
    /\ worker[w].pc = "add_ai_message"
    /\ short_term_memory' = short_term_memory \o <<AIMessage(worker[w].message),
                                                   AIMessage(worker[w].message)>>
    /\ ret' = [error |-> FALSE, feedback |-> MemoryFeedback(worker[w].new_facts)]
    /\ worker' = [worker EXCEPT ![w] = IdleWorker]
    /\ UNCHANGED <<user_profile, clock, requests, faults, call,
                   taskVars, moodVars, journalVars, reflectionVars>>

\* the rest of process_message (add_message_to_short_term line 88 and
\* lines 207-213): the reply is appended to the buffer and returned with the
\* feedback text made from the delta; the thread is free again
add_ai_message(w) ==
    /\ worker[w].pc = "add_ai_message"
    /\ short_term_memory' = Append(short_term_memory, AIMessage(worker[w].message))
    /\ ret' = [error |-> FALSE, feedback |-> MemoryFeedback(worker[w].new_facts)]
    /\ worker' = [worker EXCEPT ![w] = IdleWorker]
    /\ UNCHANGED <<user_profile, clock, requests, faults, call,
                   taskVars, moodVars, journalVars, reflectionVars>>

\* the direct caller of update_user_profile has its result; the thread is
\* free again
returned(w) ==
    /\ worker[w].pc = "returned"
    /\ worker' = [worker EXCEPT ![w] = IdleWorker]
    /\ UNCHANGED <<user_profile, clock, requests, faults, pureVars,
                   taskVars, moodVars, journalVars, reflectionVars, bufferVars>>

InitProfile ==
    /\ call = NoCall
    /\ ret = NoRet
    /\ StoreAtStart

NextProfile ==
    \E w \in Workers :
        \/ chat(w)
        \/ update_user_profile(w)
        \/ process_message(w)
        \/ store_user_facts(w)
        \/ update_get(w)
        \/ update_update(w)
        \/ update_add(w)
        \/ update_fallback(w)
        \/ predict(w)
        \/ add_ai_message(w)
        \/ returned(w)

\* request threads run concurrently; store calls may raise
SpecProfile == InitProfile /\ [][NextProfile]_vars

\* a chat request taken while no other request is running
chat_alone(w) ==
    /\ \A v \in Workers : worker[v].pc = "idle"
    /\ chat(w)

NextChatSeq ==
    \E w \in Workers :
        \/ chat_alone(w)
        \/ process_message(w)
        \/ store_user_facts(w)
        \/ update_get(w)
        \/ update_update(w)
        \/ update_add(w)
        \/ update_fallback(w)
        \/ predict(w)
        \/ add_ai_message(w)

\* chat requests one after the other; store calls may raise
SpecChatSeq == InitProfile /\ [][NextChatSeq]_vars

\* clear_short_term_memory (lines 374-381)
clear_short_term_memory ==
    /\ short_term_memory' = <<>>
    /\ UNCHANGED <<pureVars, chatVars, clock, requests, faults,
                   taskVars, moodVars, journalVars, reflectionVars>>

NextTurn ==
    \/ NextChatSeq
    \/ (\A w \in Workers : worker[w].pc = "idle") /\ clear_short_term_memory

\* chat requests one after the other and clears of the conversation buffer
SpecTurn == InitProfile /\ [][NextTurn]_vars

\* get_user_memory_category on the answer of get_user_profile (lines
\* 367-369): the list under profile['memories'][category], [] without one
GetUserMemoryCategory(profile, category) ==
    LET memories == IF "memories" \in DOMAIN ProfileOf(profile)
                    THEN ProfileOf(profile)["memories"] ELSE EmptyDict
    IN IF category \in DOMAIN memories THEN memories[category] ELSE List(<<>>)

\* the categories asked for
MemoryCategories == {"pets", "support_preferences", "notes"}

\* GET /api/memory/category?category=...
get_user_memory_category(category) ==
    /\ \E raised \in FaultChoices :
         /\ ret' = [facts |-> GetUserMemoryCategory(
                                  IF raised THEN GetUserProfileError
                                  ELSE GetUserProfile(Get(user_profile, profile_id)),
                                  category)]
         /\ faults' = IF raised THEN faults + 1 ELSE faults
    /\ call' = [op |-> "get_user_memory_category", category |-> category]
    /\ UNCHANGED <<user_profile, worker, clock, requests,
                   taskVars, moodVars, journalVars, reflectionVars, bufferVars>>

NextCategory ==
    \/ NextChatSeq
    \/ \E category \in MemoryCategories : get_user_memory_category(category)

\* chat requests one after the other and reads of a category of the
\* profile; store calls may raise
SpecCategory == InitProfile /\ [][NextCategory]_vars

\* GET /api/memory/show: get_user_profile() called by a client, in one step
get_user_profile ==
    /\ \E raised \in FaultChoices :
         /\ ret' = IF raised THEN GetUserProfileError
                   ELSE GetUserProfile(Get(user_profile, profile_id))
         /\ faults' = IF raised THEN faults + 1 ELSE faults
    /\ call' = [op |-> "get_user_profile"]
    /\ UNCHANGED <<user_profile, worker, clock, requests,
                   taskVars, moodVars, journalVars, reflectionVars, bufferVars>>

NextProfileRead ==
    \/ get_user_profile
    \/ \E w \in Workers :
          \/ update_user_profile(w)
          \/ update_get(w)
          \/ update_update(w)
          \/ update_add(w)
          \/ update_fallback(w)
          \/ returned(w)

\* concurrent update_user_profile calls and profile reads; store calls may
\* raise
SpecProfileRead == InitProfile /\ [][NextProfileRead]_vars

---------------------------------------------------------------------------
(* The merge of _store_user_facts as a specification: any profile read,    *)
(* any delta, then the merged map.                                         *)

\* how long the lists of a generated profile or delta are
MaxListLen == 2

FactNames == { <<"B", "r", "u", "n", "o">>, <<"T", "o", "m">> }

RECURSIVE ListsUpTo(_)
ListsUpTo(n) ==
    IF n = 0 THEN {<<>>}
    ELSE ListsUpTo(n - 1) \cup
         {Append(l, x) : l \in {k \in ListsUpTo(n - 1) : Len(k) = n - 1}, x \in FactNames}

\* the dicts over keys whose values are drawn from values; a key may be absent
DictsOver(keys, values) ==
    UNION {[present -> values] : present \in SUBSET keys}

ListKeys == {"pets", "notes"}

\* a stored profile: a list key holds a list (duplicates included), or a
\* string, or is absent
ExistingProfiles ==
    DictsOver(ListKeys, {Str(<<"x">>)} \cup {List(l) : l \in ListsUpTo(MaxListLen)})

\* a delta: at least one key; a list key holds a non-empty list
FactDeltas ==
    {f \in DictsOver(ListKeys, {List(l) : l \in ListsUpTo(MaxListLen) \ {<<>>}}) :
        Truthy(f)}

InitMerge ==
    /\ call \in [op : {"_store_user_facts"}, profile_data : ExistingProfiles,
                 facts : FactDeltas]
    /\ ret = NoRet
    /\ StoreAtStart

merge_user_facts ==
    /\ call.op = "_store_user_facts"
    /\ ret = NoRet
    /\ \E merged \in MergeFacts(call.profile_data, call.facts) :
         ret' = [profile_data |-> merged]
    /\ UNCHANGED <<call, storeVars>>

NextMerge == merge_user_facts

SpecMerge == InitMerge /\ [][NextMerge]_vars

---------------------------------------------------------------------------
(* The task store: TaskManager.add_task, get_all_tasks, update_task and    *)
(* delete_task.  A task id is the number of the request that created it.   *)
(* A due date is None or a text: Str(<<d>>) with d > 0 is day d written in *)
(* ISO format and Str(<<0>>) is a text in none of the accepted formats.    *)
(* The title, description, tags and suggestions of a task are left out.    *)

None == [kind |-> "none"]

priority_levels == [low |-> 1, medium |-> 2, high |-> 3, urgent |-> 4]

task_categories == {"self_care", "mindfulness", "exercise", "social", "work",
                    "personal", "health", "learning", "creative", "household"}

\* a variant of the allow-list that lets every key of the updates map through
allowed_updates_AnyKey == {"title", "description", "priority", "category", "status",
                           "due_date", "wellness_impact", "id", "created_at",
                           "completed_at", "updated_at"}

allowed_updates == {"title", "description", "priority", "category", "status",
                    "due_date", "wellness_impact"}

\* priority_levels.get(priority, 2)
PriorityLevel(priority) ==
    IF priority \in DOMAIN priority_levels THEN priority_levels[priority] ELSE 2

\* the due date add_task stores (lines 72-84)
ParseDueDate(due_date) ==
    IF due_date = None THEN None
    ELSE IF due_date.v = <<>> THEN None
    ELSE IF due_date.v[1] > 0 THEN due_date
    ELSE None

\* the task object of add_task (lines 87-101)
NewTask(task_id, timestamp, priority, due_date) ==
    [id |-> task_id,
     priority |-> IF priority \in DOMAIN priority_levels THEN priority ELSE "medium",
     category |-> "personal",
     wellness_impact |-> "neutral",
     status |-> "pending",
     created_at |-> IsoFormat(timestamp),
     due_date |-> ParseDueDate(due_date),
     completed_at |-> None]

\* the metadata of a task record, without its None values
TaskMetadata(task) ==
    [k \in {"id", "type", "status", "priority", "category", "created_at",
            "wellness_impact"}
           \cup (IF task["due_date"] = None THEN {} ELSE {"due_date"}) |->
        IF k = "type" THEN "task" ELSE task[k]]

\* the ids of a collection in the order the records were added
RECURSIVE IdsInOrder(_)
IdsInOrder(ids) ==
    IF ids = {} THEN <<>>
    ELSE LET first == CHOOSE i \in ids : \A j \in ids : i <= j
         IN <<first>> \o IdsInOrder(ids \ {first})

\* whether a record's metadata matches a where filter
Matches(metadata, where) ==
    \A k \in DOMAIN where : k \in DOMAIN metadata /\ metadata[k] = where[k]

\* collection.get(where=..., include=["documents", "metadatas"])
GetWhere(collection, where) ==
    LET ids == IdsInOrder({id \in DOMAIN collection :
                              Matches(collection[id].metadata, where)})
    IN [ids |-> ids,
        documents |-> [i \in 1..Len(ids) |-> collection[ids[i]].document],
        metadatas |-> [i \in 1..Len(ids) |-> collection[ids[i]].metadata]]

\* the sort key of get_all_tasks (lines 266-269)
SortKey(t) ==
    [level |-> 0 - PriorityLevel(t["priority"]),
     due_date |-> IF "due_date" \in DOMAIN t THEN t["due_date"] ELSE Str(<<9999>>)]

\* key tuples are compared element by element: two keys of the same level
\* and different due dates compare their due dates, and None < str raises
CompareRaises(a, b) ==
    /\ a.level = b.level
    /\ a.due_date # b.due_date
    /\ (a.due_date = None \/ b.due_date = None)

\* a < b on two keys that compare
KeyLess(a, b) ==
    \/ a.level < b.level
    \/ a.level = b.level /\ a.due_date # b.due_date
                         /\ a.due_date.v[1] < b.due_date.v[1]

\* tasks.sort raises TypeError
SortRaises(tasks) ==
    \E i, j \in 1..Len(tasks) : CompareRaises(SortKey(tasks[i]), SortKey(tasks[j]))

\* where x goes in a list sorted by key: after every element not less
InsertByKey(sorted, x) ==
    LET after == {i \in 1..Len(sorted) : ~KeyLess(SortKey(x), SortKey(sorted[i]))}
        k == IF after = {} THEN 0 ELSE CHOOSE i \in after : \A j \in after : j <= i
    IN SubSeq(sorted, 1, k) \o <<x>> \o SubSeq(sorted, k + 1, Len(sorted))

RECURSIVE SortTasks(_)
SortTasks(tasks) ==
    IF tasks = <<>> THEN <<>>
    ELSE InsertByKey(SortTasks(SubSeq(tasks, 1, Len(tasks) - 1)), tasks[Len(tasks)])

\* the filter of get_all_tasks (lines 242-248): a status or a category that
\* is None or empty is no criterion; both are written "" here
TaskFilter(status, category) ==
    [k \in {"type"} \cup (IF status = "" THEN {} ELSE {"status"})
                    \cup (IF category = "" THEN {} ELSE {"category"}) |->
        CASE k = "type" -> "task"
          [] k = "status" -> status
          [] k = "category" -> category]

\* get_all_tasks(status, category): the sorted tasks that match the filter
\* and whose document parses, [] when the store or the sort raised
GetTasksWhere(collection, where, raised) ==
    IF raised THEN <<>>
    ELSE LET results == GetWhere(collection, where)
             parsed == SelectSeq(results.documents, JsonParses)
             tasks == [i \in 1..Len(parsed) |-> JsonLoads(parsed[i])]
         IN IF SortRaises(tasks) THEN <<>> ELSE SortTasks(tasks)

\* get_all_tasks(): no criterion but the type
GetAllTasks(collection, raised) ==
    GetTasksWhere(collection, TaskFilter("", ""), raised)

\* variants of the completion test of update_task: without the test of the
\* current status, and with a test of the stamp in its place
StampsCompletion_Always(task, key, value) ==
    key = "status" /\ value = "completed"

StampsCompletion_Once(task, key, value) ==
    key = "status" /\ value = "completed" /\ task["completed_at"] = None

\* line 294
StampsCompletion(task, key, value) ==
    key = "status" /\ value = "completed" /\ task["status"] # "completed"

\* the loop of update_task over updates.items() from item i on; now is the
\* next reading of the clock
RECURSIVE ApplyUpdates(_, _, _, _)
ApplyUpdates(task, updates, i, now) ==
    IF i > Len(updates) THEN [task |-> task, now |-> now]
    ELSE LET key == updates[i][1]
             value == updates[i][2]
         IN IF key \in allowed_updates
            THEN IF StampsCompletion(task, key, value)
                 THEN ApplyUpdates(
                          DictSet(DictSet(task, "completed_at", IsoFormat(now)),
                                  key, value),
                          updates, i + 1, now + 1)
                 ELSE ApplyUpdates(DictSet(task, key, value), updates, i + 1, now)
            ELSE ApplyUpdates(task, updates, i + 1, now)

TaskNotFound == [success |-> FALSE, error |-> "Task not found"]

\* the arguments the task requests are made with
Priorities == {"medium", "asap"}
DueDates == <<None, Str(<<0>>), Str(<<1>>)>>
UpdateChoices ==
    << << <<"status", "completed">> >>,
       << <<"status", "pending">> >>,
       << <<"completed_at", None>>, <<"created_at", None>>,
          <<"priority", "high">> >>,
       << <<"due_date", None>> >>,
       << <<"priority", "asap">> >> >>

\* the ids a request may name: the stored ones and one that was never issued
TaskIds == DOMAIN important_memories \cup {requests + 1}

\* POST /api/tasks
add_task(priority, due_date) ==
    /\ requests < MaxTaskCalls
    /\ LET task == NewTask(requests + 1, clock, priority, due_date)
       IN /\ \E raised \in FaultChoices :
                /\ important_memories' =
                      IF raised THEN important_memories
                      ELSE Put(important_memories, task["id"], JsonDumps(task),
                               TaskMetadata(task))
                /\ faults' = faults + (IF raised THEN 1 ELSE 0)
          /\ ret' = [success |-> TRUE, task |-> task]
    /\ call' = [op |-> "add_task", priority |-> priority, due_date |-> due_date]
    /\ clock' = clock + 1
    /\ requests' = requests + 1
    /\ UNCHANGED <<chatVars, moodVars, journalVars, reflectionVars, bufferVars>>

\* get_all_tasks(status, category); GET /api/tasks calls it with no criterion
get_all_tasks(status, category) ==
    /\ requests < MaxTaskCalls
    /\ \E raised \in FaultChoices :
          /\ ret' = [tasks |-> GetTasksWhere(important_memories,
                                             TaskFilter(status, category), raised)]
          /\ faults' = faults + (IF raised THEN 1 ELSE 0)
    /\ call' = [op |-> "get_all_tasks", status |-> status, category |-> category]
    /\ requests' = requests + 1
    /\ UNCHANGED <<important_memories, clock, chatVars, moodVars, journalVars,
                   reflectionVars, bufferVars>>

\* PUT /api/tasks/<task_id>
update_task(task_id, updates) ==
    /\ requests < MaxTaskCalls
    /\ \E get_raised \in FaultChoices :
          LET existing_tasks == GetAllTasks(important_memories, get_raised)
              found == {i \in 1..Len(existing_tasks) :
                           existing_tasks[i]["id"] = task_id}
          IN IF found = {}
             THEN /\ ret' = TaskNotFound
                  /\ faults' = faults + (IF get_raised THEN 1 ELSE 0)
                  /\ UNCHANGED <<important_memories, clock>>
             ELSE LET task == existing_tasks[CHOOSE i \in found :
                                                \A j \in found : i <= j]
                      applied == ApplyUpdates(task, updates, 1, clock)
                      updated == DictSet(applied.task, "updated_at",
                                         IsoFormat(applied.now))
                  IN /\ \E update_raised \in FaultChoices :
                           /\ important_memories' =
                                 IF update_raised THEN important_memories
                                 ELSE Put(important_memories, updated["id"],
                                          JsonDumps(updated), TaskMetadata(updated))
                           /\ faults' = faults + (IF update_raised THEN 1 ELSE 0)
                     /\ clock' = applied.now + 1
                     /\ ret' = [success |-> TRUE, task |-> updated]
    /\ call' = [op |-> "update_task", task_id |-> task_id, updates |-> updates]
    /\ requests' = requests + 1
    /\ UNCHANGED <<chatVars, moodVars, journalVars, reflectionVars, bufferVars>>

\* DELETE /api/tasks/<task_id>
delete_task(task_id) ==
    /\ requests < MaxTaskCalls
    /\ \E raised \in FaultChoices :
          /\ important_memories' =
                IF raised THEN important_memories
                ELSE [id \in DOMAIN important_memories \ {task_id} |->
                         important_memories[id]]
          /\ faults' = faults + (IF raised THEN 1 ELSE 0)
          /\ ret' = [deleted |-> ~raised]
    /\ call' = [op |-> "delete_task", task_id |-> task_id]
    /\ requests' = requests + 1
    /\ UNCHANGED <<clock, chatVars, moodVars, journalVars, reflectionVars, bufferVars>>

InitTask ==
    /\ call = NoCall
    /\ ret = NoRet
    /\ StoreAtStart

NextTask ==
    \/ \E priority \in Priorities, d \in 1..Len(DueDates) :
          add_task(priority, DueDates[d])
    \/ get_all_tasks("", "")
    \/ \E task_id \in TaskIds, u \in 1..Len(UpdateChoices) :
          update_task(task_id, UpdateChoices[u])
    \/ \E task_id \in TaskIds : delete_task(task_id)

\* task requests one after the other; store calls may raise
SpecTask == InitTask /\ [][NextTask]_vars

\* the criteria of the filtered reads
StatusFilters == {"", "pending", "completed"}
CategoryFilters == {"", "personal", "work"}

NextTaskFilter ==
    \/ \E d \in 1..Len(DueDates) : add_task("medium", DueDates[d])
    \/ \E status \in StatusFilters, category \in CategoryFilters :
          get_all_tasks(status, category)
    \/ \E task_id \in TaskIds : update_task(task_id, UpdateChoices[1])
    \/ \E task_id \in TaskIds : delete_task(task_id)

\* task requests one after the other, the reads with a filter
SpecTaskFilter == InitTask /\ [][NextTaskFilter]_vars

---------------------------------------------------------------------------
(* The mood log: MoodTracker.log_mood and _parse_mood_value.  A number is  *)
(* PyInt(n), or PyFloat(t) for t tenths; the numeric strings the parser is *)
(* run on are an optional sign, digits and an optional point followed by   *)
(* digits.  The sentiment numbers of a note are left out.                  *)

PyInt(n) == [kind |-> "int", v |-> n]
PyFloat(tenths) == [kind |-> "float", v |-> tenths]

mood_values ==
    << [label |-> <<"t", "e", "r", "r", "i", "b", "l", "e">>, value |-> 1],
       [label |-> <<"v", "e", "r", "y", "_", "b", "a", "d">>, value |-> 2],
       [label |-> <<"b", "a", "d">>, value |-> 3],
       [label |-> <<"p", "o", "o", "r">>, value |-> 4],
       [label |-> <<"o", "k", "a", "y">>, value |-> 5],
       [label |-> <<"g", "o", "o", "d">>, value |-> 6],
       [label |-> <<"v", "e", "r", "y", "_", "g", "o", "o", "d">>, value |-> 7],
       [label |-> <<"g", "r", "e", "a", "t">>, value |-> 8],
       [label |-> <<"e", "x", "c", "e", "l", "l", "e", "n", "t">>, value |-> 9],
       [label |-> <<"a", "m", "a", "z", "i", "n", "g">>, value |-> 10] >>

\* value_moods.get(mood_value, "unknown")
ValueMood(mood_value) ==
    IF \E i \in 1..Len(mood_values) : mood_values[i].value = mood_value
    THEN Str(mood_values[CHOOSE i \in 1..Len(mood_values) :
                            mood_values[i].value = mood_value].label)
    ELSE Str(<<"u", "n", "k", "n", "o", "w", "n">>)

\* mood_values.get(mood_str)
MoodOfLabel(mood_str) ==
    IF \E i \in 1..Len(mood_values) : mood_values[i].label = mood_str
    THEN PyInt(mood_values[CHOOSE i \in 1..Len(mood_values) :
                            mood_values[i].label = mood_str].value)
    ELSE None

Digits == <<"0", "1", "2", "3", "4", "5", "6", "7", "8", "9">>
IsDigit(c) == \E i \in 1..Len(Digits) : Digits[i] = c
DigitValue(c) == (CHOOSE i \in 1..Len(Digits) : Digits[i] = c) - 1

\* the value of a string of digits (0 for the empty string)
RECURSIVE DigitsValue(_)
DigitsValue(s) ==
    IF s = <<>> THEN 0
    ELSE 10 * DigitsValue(SubSeq(s, 1, Len(s) - 1)) + DigitValue(s[Len(s)])

\* a numeric string without its sign
Unsigned(s) ==
    IF s # <<>> /\ s[1] \in {"-", "+"} THEN SubSeq(s, 2, Len(s)) ELSE s

\* the digits before the point of a numeric string
WholePart(s) ==
    LET body == Unsigned(s)
        point == Find(<<".">>, body)
    IN IF point = 0 THEN body ELSE SubSeq(body, 1, point - 1)

\* the digits after the point of a numeric string
FractionPart(s) ==
    LET body == Unsigned(s)
        point == Find(<<".">>, body)
    IN IF point = 0 THEN <<>> ELSE SubSeq(body, point + 1, Len(body))

\* float(s) does not raise ValueError
IsFloatText(s) ==
    /\ \A i \in 1..Len(WholePart(s)) : IsDigit(WholePart(s)[i])
    /\ \A i \in 1..Len(FractionPart(s)) : IsDigit(FractionPart(s)[i])
    /\ Len(WholePart(s)) + Len(FractionPart(s)) >= 1

\* int(float(s)): the fraction is dropped
IntOfFloatText(s) ==
    IF s[1] = "-" THEN 0 - DigitsValue(WholePart(s)) ELSE DigitsValue(WholePart(s))

\* int(mood) of a number: truncation towards zero
IntOfNumber(mood) ==
    IF mood.kind = "int" THEN mood.v
    ELSE IF mood.v >= 0 THEN mood.v \div 10
    ELSE 0 - ((0 - mood.v) \div 10)

\* value if 1 <= value <= 10 else None
InRange(value) == IF 1 <= value /\ value <= 10 THEN PyInt(value) ELSE None

\* str(mood) of a value that is not a number
StrOf(mood) == IF mood = None THEN <<"N", "o", "n", "e">> ELSE mood.v

\* a variant without the range test
ParseMoodValue_AnyInt(mood) ==
    IF mood = None THEN None
    ELSE IF mood.kind \in {"int", "float"} THEN PyInt(IntOfNumber(mood))
    ELSE LET mood_str == Strip(Lower(StrOf(mood)))
         IN IF IsFloatText(mood_str) THEN PyInt(IntOfFloatText(mood_str))
            ELSE MoodOfLabel(mood_str)

\* _parse_mood_value (lines 116-139)
ParseMoodValue(mood) ==
    IF mood # None /\ mood.kind \in {"int", "float"}
    THEN InRange(IntOfNumber(mood))
    ELSE LET mood_str == Strip(Lower(StrOf(mood)))
         IN IF IsFloatText(mood_str) THEN InRange(IntOfFloatText(mood_str))
            ELSE MoodOfLabel(mood_str)

\* mood_data of log_mood (lines 70-82)
MoodEntry(mood_id, mood_value, note, timestamp) ==
    LET base == [id |-> mood_id, mood_value |-> mood_value.v,
                 mood_label |-> ValueMood(mood_value.v), note |-> note,
                 timestamp |-> IsoFormat(timestamp), context |-> EmptyDict]
    IN IF note.v # <<>>
       THEN DictSet(base, "note_sentiment", [polarity |-> 0, subjectivity |-> 0])
       ELSE base

\* metadata of log_mood (lines 87-93)
MoodMetadata(mood_id, mood_value, note, timestamp) ==
    [id |-> mood_id, mood_value |-> mood_value.v, timestamp |-> IsoFormat(timestamp),
     type |-> "mood_entry", has_note |-> note.v # <<>>]

InvalidMood == [success |-> FALSE, error |-> "Invalid mood value"]

\* the moods and notes of the requests
MoodInputs ==
    << Str(<<"g", "r", "e", "a", "t">>), Str(<<" ", "G", "r", "e", "a", "t", " ">>),
       Str(<<"b", "a", "d">>), Str(<<"7">>), Str(<<"7", ".", "9">>), Str(<<"1", "1">>),
       Str(<<"0", ".", "9">>), Str(<<"-", "3">>),
       Str(<<"i", "n", "v", "a", "l", "i", "d">>),
       PyInt(7), PyInt(11), PyInt(0), PyFloat(79), PyFloat(109), PyFloat(0 - 5), None >>
Notes == {Str(<<>>), Str(<<"w", "o", "r", "k", " ", "s", "t", "r", "e", "s", "s">>)}

\* POST /api/mood
log_mood(mood, note) ==
    /\ requests < MaxMoodCalls
    /\ LET mood_value == ParseMoodValue(mood)
           mood_id == requests + 1
       IN IF mood_value = None
          THEN /\ ret' = InvalidMood
               /\ UNCHANGED <<mood_data, clock, faults>>
          ELSE /\ \E raised \in FaultChoices :
                     /\ mood_data' =
                           IF raised THEN mood_data
                           ELSE Put(mood_data, mood_id,
                                    JsonDumps(MoodEntry(mood_id, mood_value, note, clock)),
                                    MoodMetadata(mood_id, mood_value, note, clock))
                     /\ faults' = faults + (IF raised THEN 1 ELSE 0)
                     /\ ret' = IF raised THEN [success |-> FALSE, error |-> "store"]
                               ELSE [success |-> TRUE,
                                     mood_entry |-> MoodEntry(mood_id, mood_value,
                                                              note, clock),
                                     timestamp |-> IsoFormat(clock)]
               /\ clock' = clock + 1
    /\ call' = [op |-> "log_mood", mood |-> mood, note |-> note]
    /\ requests' = requests + 1
    /\ UNCHANGED <<chatVars, taskVars, journalVars, reflectionVars, bufferVars>>

InitMood ==
    /\ call = NoCall
    /\ ret = NoRet
    /\ StoreAtStart

NextMood ==
    \E m \in 1..Len(MoodInputs), note \in Notes : log_mood(MoodInputs[m], note)

\* mood requests one after the other; store calls may raise
SpecMood == InitMood /\ [][NextMood]_vars

---------------------------------------------------------------------------
(* The bulk reads: MoodTracker._get_mood_entries_in_range and              *)
(* TaskManager.get_all_tasks on a collection in which some documents are   *)
(* not JSON text.                                                          *)

\* where x goes in a list sorted by timestamp: after every element not later
InsertByTimestamp(sorted, x) ==
    LET after == {i \in 1..Len(sorted) :
                     sorted[i]["timestamp"].v[1] <= x["timestamp"].v[1]}
        k == IF after = {} THEN 0 ELSE CHOOSE i \in after : \A j \in after : j <= i
    IN SubSeq(sorted, 1, k) \o <<x>> \o SubSeq(sorted, k + 1, Len(sorted))

RECURSIVE SortByTimestamp(_)
SortByTimestamp(entries) ==
    IF entries = <<>> THEN <<>>
    ELSE InsertByTimestamp(SortByTimestamp(SubSeq(entries, 1, Len(entries) - 1)),
                           entries[Len(entries)])

\* a variant that gives up on the whole batch when one document fails
GetMoodEntriesInRange_AllOrNothing(collection, start_date, end_date, raised) ==
    IF raised THEN <<>>
    ELSE LET results == GetWhere(collection, [type |-> "mood_entry"])
             Keeps(document) ==
                 /\ start_date <= JsonLoads(document)["timestamp"].v[1]
                 /\ JsonLoads(document)["timestamp"].v[1] <= end_date
         IN IF \E i \in 1..Len(results.documents) : ~JsonParses(results.documents[i])
            THEN <<>>
            ELSE LET kept == SelectSeq(results.documents, Keeps)
                 IN SortByTimestamp([i \in 1..Len(kept) |-> JsonLoads(kept[i])])

\* _get_mood_entries_in_range (lines 286-315): the entries whose document
\* parses and whose time is in the range, sorted by timestamp; [] when the
\* store raised
GetMoodEntriesInRange(collection, start_date, end_date, raised) ==
    IF raised THEN <<>>
    ELSE LET results == GetWhere(collection, [type |-> "mood_entry"])
             Keeps(document) ==
                 /\ JsonParses(document)
                 /\ start_date <= JsonLoads(document)["timestamp"].v[1]
                 /\ JsonLoads(document)["timestamp"].v[1] <= end_date
             kept == SelectSeq(results.documents, Keeps)
         IN SortByTimestamp([i \in 1..Len(kept) |-> JsonLoads(kept[i])])

\* the record of a task, or of a mood entry, as add_task and log_mood leave
\* it, and the same record with a document that is not JSON text
TaskRecord(task) == [document |-> JsonDumps(task), metadata |-> TaskMetadata(task)]
MoodRecord(id, timestamp) ==
    [document |-> JsonDumps(MoodEntry(id, PyInt(5), Str(<<>>), timestamp)),
     metadata |-> MoodMetadata(id, PyInt(5), Str(<<>>), timestamp)]
Damaged(record) == [record EXCEPT !.document = Corrupt]

\* the collections read: each of the ids 1..MaxRecords is absent (0), holds a
\* damaged record (1) or holds one of the sound records
TaskVariants ==
    << [priority |-> "medium", due_date |-> None],
       [priority |-> "medium", due_date |-> Str(<<1>>)],
       [priority |-> "high", due_date |-> None],
       [priority |-> "high", due_date |-> Str(<<2>>)] >>

TaskStore(choice) ==
    [id \in {i \in DOMAIN choice : choice[i] # 0} |->
        IF choice[id] = 1
        THEN Damaged(TaskRecord(NewTask(id, id, "medium", None)))
        ELSE TaskRecord(NewTask(id, id, TaskVariants[choice[id] - 1].priority,
                                TaskVariants[choice[id] - 1].due_date))]

MoodStore(choice) ==
    [id \in {i \in DOMAIN choice : choice[i] # 0} |->
        IF choice[id] = 1 THEN Damaged(MoodRecord(id, 1))
        ELSE MoodRecord(id, choice[id] - 1)]

BulkReads ==
    {[op |-> "get_all_tasks", collection |-> TaskStore(choice), raised |-> raised] :
        choice \in [1..MaxRecords -> 0..(Len(TaskVariants) + 1)], raised \in BOOLEAN}
    \cup
    {[op |-> "_get_mood_entries_in_range", collection |-> MoodStore(choice),
      start_date |-> start_date, end_date |-> end_date, raised |-> raised] :
        choice \in [1..MaxRecords -> 0..4], start_date \in 1..2, end_date \in 2..3,
        raised \in BOOLEAN}

InitBulkRead ==
    /\ call \in BulkReads
    /\ ret = NoRet
    /\ StoreAtStart

bulk_read ==
    /\ ret = NoRet
    /\ ret' = IF call.op = "get_all_tasks"
              THEN [tasks |-> GetAllTasks(call.collection, call.raised)]
              ELSE [entries |-> GetMoodEntriesInRange(call.collection, call.start_date,
                                                      call.end_date, call.raised)]
    /\ UNCHANGED <<call, storeVars>>

NextBulkRead == bulk_read

SpecBulkRead == InitBulkRead /\ [][NextBulkRead]_vars

---------------------------------------------------------------------------
(* The journal: MemoryManager.save_journal_entry and                       *)
(* get_latest_journal_entry on the journals collection.                    *)

\* entry and metadata of save_journal_entry (lines 422-432)
JournalEntry(user_id, text, timestamp) ==
    [userId |-> user_id, date |-> IsoFormat(timestamp), text |-> text]

JournalMetadata(entry_id, user_id, timestamp) ==
    [id |-> entry_id, userId |-> user_id, date |-> IsoFormat(timestamp),
     type |-> "journal_entry"]

NoJournalEntries == [success |-> FALSE, error |-> "No journal entries found."]

\* entries.sort(key=lambda x: x['date'], reverse=True): the sort is stable, so
\* x goes after every element whose date is not earlier
InsertByDate(sorted, x) ==
    LET before == {i \in 1..Len(sorted) : sorted[i]["date"].v[1] >= x["date"].v[1]}
        k == IF before = {} THEN 0 ELSE CHOOSE i \in before : \A j \in before : j <= i
    IN SubSeq(sorted, 1, k) \o <<x>> \o SubSeq(sorted, k + 1, Len(sorted))

RECURSIVE SortByDateReversed(_)
SortByDateReversed(entries) ==
    IF entries = <<>> THEN <<>>
    ELSE InsertByDate(SortByDateReversed(SubSeq(entries, 1, Len(entries) - 1)),
                      entries[Len(entries)])

\* a variant that takes the first entry the store returns
GetLatestJournalEntry_First(collection, user_id, raised) ==
    IF raised THEN [success |-> FALSE, error |-> "store"]
    ELSE LET results == GetWhere(collection,
                                 [userId |-> user_id, type |-> "journal_entry"])
             parsed == {i \in 1..Len(results.documents) :
                           JsonParses(results.documents[i])}
             at == IdsInOrder(parsed)
             entries == [i \in 1..Len(at) |->
                            DictSet(JsonLoads(results.documents[at[i]]), "metadata",
                                    results.metadatas[at[i]])]
         IN IF entries = <<>> THEN NoJournalEntries
            ELSE [success |-> TRUE, entry |-> entries[1]]

\* get_latest_journal_entry (lines 443-468)
GetLatestJournalEntry(collection, user_id, raised) ==
    IF raised THEN [success |-> FALSE, error |-> "store"]
    ELSE LET results == GetWhere(collection,
                                 [userId |-> user_id, type |-> "journal_entry"])
             parsed == {i \in 1..Len(results.documents) :
                           JsonParses(results.documents[i])}
             at == IdsInOrder(parsed)
             entries == [i \in 1..Len(at) |->
                            DictSet(JsonLoads(results.documents[at[i]]), "metadata",
                                    results.metadatas[at[i]])]
         IN IF entries = <<>> THEN NoJournalEntries
            ELSE [success |-> TRUE, entry |-> SortByDateReversed(entries)[1]]

\* the users and texts of the requests
Users == {"u1", "u2"}
Texts == {Str(<<"a">>), Str(<<"b">>)}

\* POST /api/journal/start
save_journal_entry(user_id, text) ==
    /\ requests < MaxJournalCalls
    /\ LET entry_id == requests + 1
       IN \E raised \in FaultChoices :
             /\ journals' =
                   IF raised THEN journals
                   ELSE Put(journals, entry_id,
                            JsonDumps(JournalEntry(user_id, text, clock)),
                            JournalMetadata(entry_id, user_id, clock))
             /\ faults' = faults + (IF raised THEN 1 ELSE 0)
             /\ ret' = IF raised THEN [success |-> FALSE, error |-> "store"]
                       ELSE [success |-> TRUE, id |-> entry_id,
                             timestamp |-> IsoFormat(clock)]
    /\ clock' = clock + 1
    /\ call' = [op |-> "save_journal_entry", user_id |-> user_id, text |-> text]
    /\ requests' = requests + 1
    /\ UNCHANGED <<chatVars, taskVars, moodVars, reflectionVars, bufferVars>>

\* GET /api/journal/latest
get_latest_journal_entry(user_id) ==
    /\ \E raised \in FaultChoices :
          /\ ret' = GetLatestJournalEntry(journals, user_id, raised)
          /\ faults' = faults + (IF raised THEN 1 ELSE 0)
    /\ call' = [op |-> "get_latest_journal_entry", user_id |-> user_id]
    /\ UNCHANGED <<chatVars, taskVars, moodVars, journalVars, reflectionVars, bufferVars,
                   clock, requests>>

InitJournal ==
    /\ call = NoCall
    /\ ret = NoRet
    /\ StoreAtStart

NextJournal ==
    \E user_id \in Users :
        \/ \E text \in Texts : save_journal_entry(user_id, text)
        \/ get_latest_journal_entry(user_id)

\* journal requests one after the other; store calls may raise
SpecJournal == InitJournal /\ [][NextJournal]_vars

---------------------------------------------------------------------------
(* Reflections: MemoryManager.save_reflection and get_user_reflections.    *)

\* metadata of save_reflection (lines 117-122)
ReflectionMetadata(reflection_id, category, timestamp) ==
    [id |-> reflection_id, category |-> category, timestamp |-> IsoFormat(timestamp),
     type |-> "reflection"]

\* the answers collection.get(where, limit) can give: the store hands out
\* limit of the matching records, and which ones is the store's matter
LimitedAnswers(collection, where, limit) ==
    LET matching == {id \in DOMAIN collection : Matches(collection[id].metadata, where)}
        size == IF limit < Cardinality(matching) THEN limit ELSE Cardinality(matching)
    IN {GetWhere([id \in chosen |-> collection[id]], where) :
           chosen \in {c \in SUBSET matching : Cardinality(c) = size}}

\* the reflection made of one returned record (lines 267-275)
ReflectionOf(document, metadata) ==
    [id |-> metadata["id"], content |-> document, category |-> metadata["category"],
     timestamp |-> metadata["timestamp"], type |-> metadata["type"]]

\* reflections.sort(key=timestamp, reverse=True): the sort is stable, so x
\* goes after every element whose timestamp is not earlier
InsertNewestFirst(sorted, x) ==
    LET before == {i \in 1..Len(sorted) :
                      sorted[i]["timestamp"].v[1] >= x["timestamp"].v[1]}
        k == IF before = {} THEN 0 ELSE CHOOSE i \in before : \A j \in before : j <= i
    IN SubSeq(sorted, 1, k) \o <<x>> \o SubSeq(sorted, k + 1, Len(sorted))

RECURSIVE SortNewestFirst(_)
SortNewestFirst(reflections_) ==
    IF reflections_ = <<>> THEN <<>>
    ELSE InsertNewestFirst(SortNewestFirst(SubSeq(reflections_, 1, Len(reflections_) - 1)),
                           reflections_[Len(reflections_)])

\* the filter of get_user_reflections (lines 254-256): a category that is
\* None or empty is no filter
ReflectionFilter(category) ==
    IF category = None \/ category = Str(<<>>) THEN EmptyDict
    ELSE [category |-> category]

\* a variant that leaves the reflections in the order of the store
GetUserReflections_Unsorted(results, raised) ==
    IF raised THEN <<>>
    ELSE [i \in 1..Len(results.documents) |->
             ReflectionOf(results.documents[i], results.metadatas[i])]

\* get_user_reflections (lines 251-283) on the answer of the store
GetUserReflections(results, raised) ==
    IF raised THEN <<>>
    ELSE SortNewestFirst([i \in 1..Len(results.documents) |->
                             ReflectionOf(results.documents[i], results.metadatas[i])])

\* the categories and limits of the requests
General == Str(<<"g", "e", "n", "e", "r", "a", "l">>)
Gratitude == Str(<<"g", "r", "a", "t", "i", "t", "u", "d", "e">>)
Categories == <<None, Str(<<>>), General, Gratitude>>
Limits == {1, 2}

\* POST /api/memory/reflect
save_reflection(reflection_content, category) ==
    /\ requests < MaxReflectionCalls
    /\ LET reflection_id == requests + 1
       IN \E raised \in FaultChoices :
             /\ reflections' =
                   IF raised THEN reflections
                   ELSE Put(reflections, reflection_id, reflection_content,
                            ReflectionMetadata(reflection_id, category, clock))
             /\ faults' = faults + (IF raised THEN 1 ELSE 0)
             /\ ret' = IF raised THEN [saved |-> FALSE, error |-> "store"]
                       ELSE [id |-> reflection_id, saved |-> TRUE, category |-> category,
                             timestamp |-> IsoFormat(clock)]
    /\ clock' = clock + 1
    /\ call' = [op |-> "save_reflection", category |-> category]
    /\ requests' = requests + 1
    /\ UNCHANGED <<chatVars, taskVars, moodVars, journalVars, sos_requests, bufferVars>>

\* get_user_reflections(category, limit)
get_user_reflections(category, limit) ==
    /\ \E raised \in FaultChoices :
          /\ \E results \in LimitedAnswers(reflections, ReflectionFilter(category), limit) :
                ret' = [reflections |-> GetUserReflections(results, raised)]
          /\ faults' = faults + (IF raised THEN 1 ELSE 0)
          /\ call' = [op |-> "get_user_reflections", category |-> category,
                      limit |-> limit, raised |-> raised]
    /\ UNCHANGED <<chatVars, taskVars, moodVars, journalVars, reflectionVars, bufferVars,
                   clock, requests>>

InitReflect ==
    /\ call = NoCall
    /\ ret = NoRet
    /\ StoreAtStart

NextReflect ==
    \/ \E c \in 3..Len(Categories) : save_reflection(Str(<<"a">>), Categories[c])
    \/ \E c \in 1..Len(Categories), limit \in Limits :
          get_user_reflections(Categories[c], limit)

\* reflection requests one after the other; store calls may raise
SpecReflect == InitReflect /\ [][NextReflect]_vars

---------------------------------------------------------------------------
(* The other writers of the long-term store, MemoryManager.remember_       *)
(* important and save_sos_request, and get_memory_stats.                   *)

\* a variant that files the memory under another type
ImportantMetadata_Untyped(memory_id, importance, timestamp) ==
    [id |-> memory_id, importance |-> importance, timestamp |-> IsoFormat(timestamp),
     type |-> "memory"]

\* metadata of remember_important (lines 150-155)
ImportantMetadata(memory_id, importance, timestamp) ==
    [id |-> memory_id, importance |-> importance, timestamp |-> IsoFormat(timestamp),
     type |-> "important_memory"]

\* metadata of save_sos_request (lines 182-188)
SosMetadata(sos_id, sos_data) ==
    [id |-> sos_id, urgency |-> sos_data["urgency"], timestamp |-> sos_data["timestamp"],
     type |-> "sos_request", location |-> sos_data["location"]]

\* what the user asks to remember: free text, or text that is JSON
Contents == {Str(<<"a">>), JsonDumps([title |-> Str(<<"a">>)])}

\* POST /api/memory/remember
remember_important(content, importance) ==
    /\ requests < MaxStoreCalls
    /\ LET memory_id == requests + 1
       IN \E raised \in FaultChoices :
             /\ important_memories' =
                   IF raised THEN important_memories
                   ELSE Put(important_memories, memory_id, content,
                            ImportantMetadata(memory_id, importance, clock))
             /\ faults' = faults + (IF raised THEN 1 ELSE 0)
             /\ ret' = IF raised THEN [saved |-> FALSE, error |-> "store"]
                       ELSE [id |-> memory_id, saved |-> TRUE, importance |-> importance,
                             timestamp |-> IsoFormat(clock)]
    /\ clock' = clock + 1
    /\ call' = [op |-> "remember_important", importance |-> importance]
    /\ requests' = requests + 1
    /\ UNCHANGED <<chatVars, moodVars, journalVars, reflectionVars, bufferVars>>

\* handle_sos_request: the request is stamped and save_sos_request files it
save_sos_request(content, urgency) ==
    /\ requests < MaxStoreCalls
    /\ LET sos_id == requests + 1
           sos_data == [content |-> content, timestamp |-> IsoFormat(clock),
                        urgency |-> urgency, location |-> "unknown"]
       IN \E raised \in FaultChoices :
             /\ sos_requests' =
                   IF raised THEN sos_requests
                   ELSE Put(sos_requests, sos_id, sos_data["content"],
                            SosMetadata(sos_id, sos_data))
             /\ faults' = faults + (IF raised THEN 1 ELSE 0)
             /\ ret' = IF raised THEN [saved |-> FALSE, error |-> "store"]
                       ELSE [id |-> sos_id, saved |-> TRUE,
                             timestamp |-> sos_data["timestamp"]]
    /\ clock' = clock + 1
    /\ call' = [op |-> "save_sos_request", urgency |-> urgency]
    /\ requests' = requests + 1
    /\ UNCHANGED <<chatVars, taskVars, moodVars, journalVars, reflections, bufferVars>>

\* the token limit the memory manager is constructed with
max_token_limit == 2000

\* the collections get_memory_stats counts, in the order of lines 395-401
CountedCollections ==
    <<"reflections", "important_memories", "mood_data", "sos_requests", "user_profile">>

\* the collection of a name
CollectionNamed(name) ==
    CASE name = "reflections" -> reflections
      [] name = "important_memories" -> important_memories
      [] name = "mood_data" -> mood_data
      [] name = "sos_requests" -> sos_requests
      [] name = "user_profile" -> user_profile
      [] name = "journals" -> journals

\* get_memory_stats (lines 383-415): failing is the set of collections
\* whose count() raises
GetMemoryStats(failing) ==
    [short_term |-> [message_count |-> Len(short_term_memory),
                     max_token_limit |-> max_token_limit],
     long_term |-> [name \in {CountedCollections[i] : i \in DOMAIN CountedCollections} |->
                       IF name \in failing THEN 0
                       ELSE Cardinality(DOMAIN CollectionNamed(name))]]

\* GET /api/memory/show: get_memory_stats()
get_memory_stats ==
    /\ \E failing \in SUBSET {CountedCollections[i] : i \in DOMAIN CountedCollections} :
          /\ faults + Cardinality(failing) <= MaxFaults
          /\ ret' = GetMemoryStats(failing)
          /\ faults' = faults + Cardinality(failing)
          /\ call' = [op |-> "get_memory_stats", failing |-> failing]
    /\ UNCHANGED <<chatVars, taskVars, moodVars, journalVars, reflectionVars, bufferVars,
                   clock, requests>>

NextStats ==
    \/ \E text \in Texts : requests < MaxStoreCalls /\ save_journal_entry("u1", text)
    \/ \E content \in Contents : remember_important(content, "medium")
    \/ \E content \in Contents : save_sos_request(content, "medium")
    \/ get_memory_stats

\* writes to three collections and reads of the statistics; store calls may
\* raise
SpecStats == InitJournal /\ [][NextStats]_vars

---------------------------------------------------------------------------
(* Every writer of the long-term store together, one request after the     *)
(* other, with the task reads.                                             *)

NextStore ==
    \/ /\ requests < MaxStoreCalls
       /\ \/ save_reflection(Str(<<"a">>), General)
          \/ \E content \in Contents : remember_important(content, "medium")
          \/ save_sos_request(Str(<<"a">>), "medium")
          \/ save_journal_entry("u1", Str(<<"a">>))
          \/ log_mood(MoodInputs[4], Str(<<>>))
          \/ \E d \in 1..Len(DueDates) : add_task("medium", DueDates[d])
          \/ \E task_id \in TaskIds : update_task(task_id, UpdateChoices[1])
          \/ \E task_id \in TaskIds : delete_task(task_id)
          \/ get_all_tasks("", "")
          \/ update_user_profile(1)
    \/ update_get(1)
    \/ update_update(1)
    \/ update_add(1)
    \/ update_fallback(1)
    \/ returned(1)

\* requests of every kind one after the other and a thread that updates the
\* profile; store calls may raise
SpecStore == InitTask /\ [][NextStore]_vars

---------------------------------------------------------------------------
(* Properties of the extractor. *)

\* the message of the pending call as the extractor sees it
MessageLower == Strip(Lower(call.message))
\* what follows the colon of a "store this:" message
Remainder == Strip(AfterFirst(<<":">>, MessageLower))

\* the key the "store this:" rules give a remainder, in priority order
StoreThisKey(r) ==
    IF Contains(KwDog, r) /\ Contains(KwNameIs, r) THEN "pets"
    ELSE IF Contains(KwCat, r) /\ Contains(KwNameIs, r) THEN "pets"
    ELSE IF Contains(KwLike, r) \/ Contains(KwEnjoy, r) THEN "support_preferences"
    ELSE "notes"

\* C8: a "store this:" message yields a delta with exactly one key, the one
\* its remainder selects in priority order (pets for dog and "name is", pets
\* for cat and "name is", support_preferences for like or enjoy, else
\* notes), and never a name key, also when the remainder matches a name
\* pattern.
C8_StoreThisOneKey ==
    (call.op = "_extract_user_facts" /\ ret # NoRet /\ IsStoreThis(MessageLower)) =>
        /\ DOMAIN ret.facts = {StoreThisKey(Remainder)}
        /\ "name" \notin DOMAIN ret.facts
        /\ IsList(ret.facts[StoreThisKey(Remainder)])
        /\ Len(ret.facts[StoreThisKey(Remainder)].v) = 1

\* C8 witness: a "store this:" message whose remainder matches the pattern
\* "my name is <words>" was extracted, and its delta is a note.
C8_Witness ==
    /\ call.op = "_extract_user_facts"
    /\ ret # NoRet
    /\ IsStoreThis(MessageLower)
    /\ SearchStart(name_patterns[1], Remainder) # 0
    /\ Len(Title(Strip(SearchGroup(name_patterns[1], Remainder)))) > 1
    /\ DOMAIN ret.facts = {"notes"}

\* the name pattern i gives the pending message (pattern i matches it)
PatternName(i) == Title(Strip(SearchGroup(name_patterns[i], MessageLower)))
PatternMatches(i) == SearchStart(name_patterns[i], MessageLower) # 0

\* C9: for a message that is not a "store this:" message and matches both
\* name patterns, the extracted name is the one of the first pattern ("my
\* name is"); the later pattern ("call me") does not overwrite it.
C9_FirstPatternWins ==
    (/\ call.op = "_extract_user_facts"
     /\ ret # NoRet
     /\ ~IsStoreThis(MessageLower)
     /\ PatternMatches(1) /\ PatternMatches(2)
     /\ Len(PatternName(1)) > 1) =>
        /\ "name" \in DOMAIN ret.facts
        /\ ret.facts["name"] = Str(PatternName(1))

---------------------------------------------------------------------------
(* Properties of the relevance ranking. *)

\* every hit the three queries of the pending call answered with
AllHits ==
    UNION {{[content |-> i, collection |-> c, distance |-> call.answers[c].distances[i]] :
                i \in 1..Len(call.answers[c].distances)} : c \in DOMAIN call.answers}

CollectionRank(c) == CHOOSE i \in 1..Len(SearchedCollections) : SearchedCollections[i] = c

\* h was appended before g: an earlier collection, or the same one and a
\* better rank in its answer
AppendedBefore(h, g) ==
    \/ CollectionRank(h.collection) < CollectionRank(g.collection)
    \/ h.collection = g.collection /\ h.content < g.content

\* h is ranked before g: nearer, or as near and appended before
RankedBefore(h, g) ==
    \/ h.distance < g.distance
    \/ h.distance = g.distance /\ AppendedBefore(h, g)

\* C7: get_relevant_memories(query, n) returns the first n of the stable
\* ascending-distance sort of the hits of reflections, important_memories and
\* user_profile, each tagged with its collection: at most n hits, each a hit
\* of its collection, non-decreasing in distance, ties in the order
\* collected, and no hit left out ranks before a hit returned.
C7_RankedPrefix ==
    (call.op = "get_relevant_memories" /\ ret # NoRet) =>
        LET r == ret.memories
        IN  /\ Len(r) = Min(call.n_results, Cardinality(AllHits))
            /\ \A i \in 1..Len(r) : r[i] \in AllHits
            /\ \A i, j \in 1..Len(r) : i < j => RankedBefore(r[i], r[j])
            /\ \A h \in AllHits :
                  (\A i \in 1..Len(r) : r[i] # h) =>
                      \A i \in 1..Len(r) : RankedBefore(r[i], h)

\* C7 witness: distances 2, 0, 1 from the three collections and n = 2: the
\* hits at distance 0 and 1 were returned, in that order.
C7_Witness ==
    /\ call.op = "get_relevant_memories"
    /\ ret # NoRet
    /\ call.n_results = 2
    /\ call.answers["reflections"].distances = <<2>>
    /\ call.answers["important_memories"].distances = <<0>>
    /\ call.answers["user_profile"].distances = <<1>>
    /\ ret.memories = << [content |-> 1, collection |-> "important_memories", distance |-> 0],
                         [content |-> 1, collection |-> "user_profile", distance |-> 1] >>

---------------------------------------------------------------------------
(* Properties of the profile. *)

\* C1: the user_profile collection holds at most one record, under the id
\* "user_profile_main", in every state and under every interleaving of
\* update_user_profile calls; once a call has returned updated (a second call
\* with the same profile included) the collection holds exactly that one
\* record.
C1_SingleProfile ==
    /\ DOMAIN user_profile \subseteq {"user_profile_main"}
    /\ Cardinality(DOMAIN user_profile) <= 1
    /\ \A w \in Workers :
         (worker[w].result # NoRet /\ worker[w].result.updated) =>
             /\ worker[w].result.profile_id = "user_profile_main"
             /\ DOMAIN user_profile = {"user_profile_main"}

\* C1 witness: update_user_profile(P) returned updated after it found the
\* record present with the document of P (an earlier call with the same P),
\* and the collection counts one record.
C1_Witness ==
    \E w \in Workers :
        /\ worker[w].pc = "returned"
        /\ worker[w].result # NoRet /\ worker[w].result.updated
        /\ worker[w].existing # NoRet
        /\ worker[w].existing.documents = <<JsonDumps(worker[w].profile_data)>>
        /\ Cardinality(DOMAIN user_profile) = 1

\* the elements a profile holds under a key (none when it holds no list there)
ListElements(profile, key) ==
    IF key \in DOMAIN profile /\ profile[key].kind = "list"
    THEN {profile[key].v[i] : i \in 1..Len(profile[key].v)}
    ELSE {}

\* C2: for every profile read and every delta, the merge writes, for each
\* list-valued key of the delta, a list whose elements are those of the
\* existing list (none when the key is absent or holds no list) and those of
\* the delta, none of them twice.
C2_ListUnion ==
    (call.op = "_store_user_facts" /\ ret # NoRet) =>
        \A k \in DOMAIN call.facts :
            call.facts[k].kind = "list" =>
                /\ k \in DOMAIN ret.profile_data
                /\ ret.profile_data[k].kind = "list"
                /\ ListElements(ret.profile_data, k)
                     = ListElements(call.profile_data, k) \cup ListElements(call.facts, k)
                /\ Len(ret.profile_data[k].v)
                     = Cardinality(ListElements(ret.profile_data, k))

\* C2 witness: pets [Bruno] merged with the delta pets [Bruno, Tom] gave a
\* list of two pets, and a notes key that held a string gave a list.
C2_Witness ==
    /\ call.op = "_store_user_facts"
    /\ ret # NoRet
    /\ call.profile_data = [pets |-> List(<< <<"B", "r", "u", "n", "o">> >>),
                            notes |-> Str(<<"x">>)]
    /\ call.facts = [pets |-> List(<< <<"B", "r", "u", "n", "o">>, <<"T", "o", "m">> >>),
                     notes |-> List(<< <<"T", "o", "m">> >>)]
    /\ Len(ret.profile_data["pets"].v) = 2
    /\ ret.profile_data["notes"] = List(<< <<"T", "o", "m">> >>)

\* the stored profile (the empty map when there is none)
StoredProfile(collection) ==
    IF "user_profile_main" \in DOMAIN collection
    THEN JsonLoads(collection["user_profile_main"].document)
    ELSE EmptyDict

\* every key of old is a key of new, and every element of a list of old is
\* in the list of new
KeepsFacts(old, new) ==
    \A k \in DOMAIN old :
        /\ k \in DOMAIN new
        /\ ListElements(old, k) \subseteq ListElements(new, k)

\* C3: in every step of any sequence of fact-storing chat requests, every
\* key and every list element of the stored profile is still in the stored
\* profile after the step, whatever the outcome of the profile read inside
\* the merge.
C3_MergeKeepsStoredFacts ==
    [][KeepsFacts(StoredProfile(user_profile), StoredProfile(user_profile'))]_vars

\* the thread that takes the step
Steps(w) == worker'[w] # worker[w]

\* C4: a profile write of a chat request replaces the whole document by the
\* merge of the profile that request read earlier with its own delta, whatever
\* is stored at the time of the write (the last writer wins), so two
\* concurrent requests can lose one of their two contributions.
C4_LastWriterWins ==
    [][\A w \in Workers :
         (Steps(w) /\ worker[w].message # 0 /\ user_profile' # user_profile) =>
             LET read == ProfileOf(worker[w].existing_profile)
                 facts == worker[w].new_facts
                 new == StoredProfile(user_profile')
             IN  /\ DOMAIN new = DOMAIN read \cup DOMAIN facts \cup {"last_updated"}
                 /\ \A k \in DOMAIN facts :
                      ListElements(new, k)
                        = ListElements(read, k) \cup ListElements(facts, k)
                 /\ \A k \in DOMAIN read \ (DOMAIN facts \cup {"last_updated"}) :
                      new[k] = read[k]]_vars

\* C4 witness: no store call raised, the two requests storing the pets Bruno
\* and Tom both had their profile write succeed, and the stored profile holds
\* one pet only.
C4_Witness ==
    /\ faults = 0
    /\ \A w \in Workers :
         /\ worker[w].pc = "predict"
         /\ worker[w].result # NoRet /\ worker[w].result.updated
    /\ {worker[w].message : w \in Workers} = {1, 2}
    /\ Cardinality(ListElements(StoredProfile(user_profile), "pets")) = 1

\* no extraction rule matches the message: no "store this:" head, and no
\* name pattern that yields a name longer than one character
NoRuleMatches(message) ==
    LET message_lower == Strip(Lower(message))
    IN  /\ ~IsStoreThis(message_lower)
        /\ \A i \in 1..Len(name_patterns) :
             \/ SearchStart(name_patterns[i], message_lower) = 0
             \/ Len(Title(Strip(SearchGroup(name_patterns[i], message_lower)))) <= 1

\* the chat messages no rule matches
NoRuleMessages == {m \in 1..Len(ChatMessages) : NoRuleMatches(ChatMessages[m])}

\* C10: process_message on a message that matches no extraction rule has an
\* empty delta and never enters _store_user_facts or update_user_profile:
\* none of its steps changes the user_profile collection (document,
\* last_updated and metadata).
C10_NoMatchNoWrite ==
    [][\A w \in Workers :
         (/\ Steps(w)
          /\ worker[w].message \in NoRuleMessages) =>
             /\ user_profile' = user_profile
             /\ worker'[w].new_facts = EmptyDict
             /\ worker'[w].pc \in {"predict", "add_ai_message", "idle"}]_vars

\* C10 witness: a request with a message that matches no rule is past the
\* extraction while a profile is stored.
C10_Witness ==
    \E w \in Workers :
        /\ worker[w].pc = "predict"
        /\ worker[w].message \in NoRuleMessages
        /\ worker[w].new_facts = EmptyDict
        /\ DOMAIN user_profile # {}

---------------------------------------------------------------------------
(* Properties of the task store. *)

\* the task a record of the collection holds
StoredTask(collection, id) == JsonLoads(collection[id].document)

\* the updates map asks for status = completed
SetsCompleted(updates) ==
    \E i \in 1..Len(updates) :
        updates[i][1] = "status" /\ updates[i][2] = "completed"

\* the step is update_task(id, updates) with status = completed in updates
CompletesTask(id) ==
    /\ call'.op = "update_task"
    /\ call'.task_id = id
    /\ SetsCompleted(call'.updates)

\* C5: update_task with status = completed on a task whose stored status is
\* already completed leaves completed_at as it was, in the store and in the
\* task it returns; and the stored completed_at of a task changes only in an
\* update_task with status = completed that takes the stored status from a
\* value other than completed to completed.
C5_CompletedAgainKeepsStamp ==
    [][\A id \in DOMAIN important_memories :
          LET old == StoredTask(important_memories, id)
          IN /\ (CompletesTask(id) /\ old["status"] = "completed") =>
                    /\ id \in DOMAIN important_memories'
                    /\ StoredTask(important_memories', id)["completed_at"]
                          = old["completed_at"]
                    /\ ret'.success =>
                          ret'.task["completed_at"] = old["completed_at"]
             /\ (/\ id \in DOMAIN important_memories'
                 /\ StoredTask(important_memories', id)["completed_at"]
                       # old["completed_at"]) =>
                    /\ CompletesTask(id)
                    /\ old["status"] # "completed"
                    /\ StoredTask(important_memories', id)["status"] = "completed"
      ]_vars

\* a completed task was completed again: the update was written, and its
\* updated_at is more than one clock reading after the stamp it kept
C5_Witness ==
    /\ call.op = "update_task"
    /\ SetsCompleted(call.updates)
    /\ ret.success
    /\ call.task_id \in DOMAIN important_memories
    /\ StoredTask(important_memories, call.task_id) = ret.task
    /\ ret.task["status"] = "completed"
    /\ ret.task["completed_at"] # None
    /\ ret.task["updated_at"].v[1] > ret.task["completed_at"].v[1] + 1

\* C6 as stated: once a task has a completed_at stamp, the stamp keeps its
\* value in every later state of the task.
C6_StampedOnce ==
    [][\A id \in DOMAIN important_memories \cap DOMAIN important_memories' :
          StoredTask(important_memories, id)["completed_at"] # None =>
              StoredTask(important_memories', id)["completed_at"]
                  = StoredTask(important_memories, id)["completed_at"]
      ]_vars

\* C6: over the lifetime of a task, every step that takes its stored status
\* from a value other than completed to completed stamps completed_at with
\* the time of that step, later than any stamp it had (a task that was
\* reopened and completed again is stamped again); every other step keeps
\* completed_at; a completed task always has a stamp.
C6_StampedOnEachCompletion ==
    [][\A id \in DOMAIN important_memories \cap DOMAIN important_memories' :
          LET old == StoredTask(important_memories, id)
              new == StoredTask(important_memories', id)
          IN /\ IF old["status"] # "completed" /\ new["status"] = "completed"
                THEN /\ new["completed_at"] = IsoFormat(clock)
                     /\ old["completed_at"] # None =>
                           old["completed_at"].v[1] < clock
                ELSE new["completed_at"] = old["completed_at"]
             /\ new["status"] = "completed" => new["completed_at"] # None
      ]_vars

\* the one task of the store was completed, reopened and completed again:
\* four requests without a store fault read the clock six times (add_task
\* once, the completing updates twice, the update between them once), and
\* the stamp is the reading of the last request
C6_Witness ==
    /\ faults = 0
    /\ requests = 4
    /\ clock = 6
    /\ DOMAIN important_memories = {1}
    /\ call.op = "update_task"
    /\ SetsCompleted(call.updates)
    /\ StoredTask(important_memories, 1)["status"] = "completed"
    /\ StoredTask(important_memories, 1)["completed_at"] = IsoFormat(4)
    /\ StoredTask(important_memories, 1)["created_at"] = IsoFormat(0)

\* C11: when the store rejects the write of add_task or update_task, the
\* result reports failure: a result with success = true is returned only
\* when the task it carries is the stored one.
C11_WriteFailureReported ==
    [][(call'.op \in {"add_task", "update_task"} /\ ret'.success) =>
          /\ ret'.task["id"] \in DOMAIN important_memories'
          /\ StoredTask(important_memories', ret'.task["id"]) = ret'.task
      ]_vars

---------------------------------------------------------------------------
(* Properties of the error handling of the memory manager. *)

\* the positions of a request thread
Positions == {"idle", "process_message", "store_user_facts", "update_get",
              "update_update", "update_add", "update_fallback", "predict",
              "add_ai_message", "returned"}

\* a result of update_user_profile
IsUpdateResult(r) ==
    /\ "updated" \in DOMAIN r
    /\ r.updated \in BOOLEAN
    /\ IF r.updated THEN {"timestamp", "profile_id"} \subseteq DOMAIN r
       ELSE "error" \in DOMAIN r

\* a result of get_user_profile
IsProfileResult(r) ==
    /\ "exists" \in DOMAIN r
    /\ r.exists \in BOOLEAN
    /\ IF r.exists THEN {"profile", "metadata"} \subseteq DOMAIN r
       ELSE "profile" \in DOMAIN r \/ "error" \in DOMAIN r

HoldsFact(profile, key, value) ==
    /\ key \in DOMAIN profile
    /\ IF value.kind = "list"
       THEN profile[key].kind = "list"
            /\ \A i \in 1..Len(value.v) : value.v[i] \in ListElements(profile, key)
       ELSE profile[key] = value

\* C13: when process_message returns a response, every fact its memory
\* feedback text says was stored is in the stored profile, and the text is
\* not returned after a profile write that failed.
C13_FeedbackMeansStored ==
    [][\A w \in Workers :
         (Steps(w) /\ worker[w].pc \in {"predict", "add_ai_message"}
                   /\ worker'[w].pc = "idle") =>
             \A k \in DOMAIN ret'.feedback :
                 /\ HoldsFact(StoredProfile(user_profile'), k, ret'.feedback[k])
                 /\ worker[w].result # NoRet
                 /\ worker[w].result.updated
      ]_vars

---------------------------------------------------------------------------
(* Properties of the profile read. *)

\* the step is a get_user_profile() call of a client
ReadsProfile ==
    /\ call'.op = "get_user_profile"
    /\ worker' = worker
    /\ <<call', ret', faults'>> # <<call, ret, faults>>

\* C14: a get_user_profile whose store read does not raise returns
\* exists = false with an empty profile and no error while no profile record
\* exists, and exists = true with the stored profile map once one exists;
\* and the stored profile map is the argument of the last update_user_profile
\* that returned updated: only such a call changes the record, and it leaves
\* its own profile_data there.
C14_ProfileRoundTrip ==
    [][/\ (ReadsProfile /\ faults' = faults) =>
             IF DOMAIN user_profile = {}
             THEN ret' = [exists |-> FALSE, profile |-> EmptyDict]
             ELSE /\ ret'.exists
                  /\ "error" \notin DOMAIN ret'
                  /\ ret'.profile = StoredProfile(user_profile)
                  /\ ret'.metadata = user_profile["user_profile_main"].metadata
       /\ \A w \in Workers :
             /\ (Steps(w) /\ user_profile' # user_profile) =>
                    /\ worker'[w].result # NoRet
                    /\ worker'[w].result.updated
             /\ (Steps(w) /\ worker'[w].result # NoRet /\ worker[w].result = NoRet
                           /\ worker'[w].result.updated) =>
                    /\ DOMAIN user_profile' = {"user_profile_main"}
                    /\ StoredProfile(user_profile') = worker[w].profile_data
      ]_vars

\* C14 witness: after update_user_profile({name: Jo}) returned updated, a
\* get_user_profile answered exists = true with that map.
C14_Witness ==
    /\ call.op = "get_user_profile"
    /\ ret # NoRet
    /\ "exists" \in DOMAIN ret
    /\ ret.exists
    /\ ret.profile = DictSet(EmptyDict, "name", Str(<<"J", "o">>))
    /\ \E w \in Workers : /\ worker[w].pc = "returned"
                          /\ worker[w].result.updated
                          /\ worker[w].profile_data = ret.profile

---------------------------------------------------------------------------
(* Properties of the task requests. *)

\* C15: an update_task or delete_task that names an id that is not in the
\* store reports failure (success = false with "Task not found", or false)
\* and leaves the important_memories collection as it was.
C15_AbsentTaskReported ==
    [][/\ (call'.op = "update_task" /\ call'.task_id \notin DOMAIN important_memories) =>
             /\ ret' = TaskNotFound
             /\ important_memories' = important_memories
       /\ (call'.op = "delete_task" /\ call'.task_id \notin DOMAIN important_memories) =>
             /\ ~ret'.deleted
             /\ important_memories' = important_memories
      ]_vars

\* C16: every stored task has a priority among low, medium, high and urgent,
\* a category among the ten task categories and a status among the task
\* statuses, after any add_task and update_task requests.
C16_TaskFieldsValid ==
    \A id \in DOMAIN important_memories :
        LET task == StoredTask(important_memories, id)
        IN /\ task["priority"] \in DOMAIN priority_levels
           /\ task["category"] \in task_categories
           /\ task["status"] \in {"pending", "completed"}

\* the fields update_task may overwrite from the updates map
AllowListed == {"title", "description", "priority", "category", "status",
                "due_date", "wellness_impact"}

\* the updates map holds the key with the value
Updates(updates, key, value) ==
    \E i \in 1..Len(updates) : updates[i][1] = key /\ updates[i][2] = value

\* C17: an update_task request leaves every other record of the collection
\* as it was and removes none; in the target task it changes only
\* allow-listed fields, each to the value the updates map gives it, and the
\* completed_at / updated_at stamps; the id, created_at and every other
\* field keep their values, and keys of the map outside the allow-list are
\* ignored.
C17_UpdateFrame ==
    [][call'.op = "update_task" =>
          /\ DOMAIN important_memories' = DOMAIN important_memories
          /\ \A id \in DOMAIN important_memories :
                IF id # call'.task_id
                THEN important_memories'[id] = important_memories[id]
                ELSE LET old == StoredTask(important_memories, id)
                         new == StoredTask(important_memories', id)
                     IN /\ DOMAIN old \subseteq DOMAIN new
                        /\ DOMAIN new \subseteq DOMAIN old \cup AllowListed
                                                  \cup {"updated_at"}
                        /\ \A k \in DOMAIN old :
                              new[k] # old[k] =>
                                 \/ k \in AllowListed
                                      /\ Updates(call'.updates, k, new[k])
                                 \/ k = "updated_at"
                                 \/ k = "completed_at"
                                      /\ SetsCompleted(call'.updates)
                                      /\ new[k] = IsoFormat(clock)
      ]_vars

\* C17 witness: an update whose map names completed_at and created_at beside
\* priority was written: the task has the new priority and an updated_at
\* stamp, and still its created_at and no completed_at.
C17_Witness ==
    /\ call.op = "update_task"
    /\ Updates(call.updates, "created_at", None)
    /\ ret.success
    /\ call.task_id \in DOMAIN important_memories
    /\ StoredTask(important_memories, call.task_id) = ret.task
    /\ ret.task["priority"] = "high"
    /\ ret.task["created_at"] # None
    /\ "updated_at" \in DOMAIN ret.task

---------------------------------------------------------------------------
(* Properties of the mood log. *)

\* what each of MoodInputs means: the mood value between 1 and 10 of a
\* label or of a number truncated to an integer, 0 when there is none
MoodMeans == <<8, 8, 3, 7, 7, 0, 0, 0, 0, 7, 0, 0, 7, 10, 0, 0>>

\* what the mood of the request of this step means
MeansNext == MoodMeans[CHOOSE m \in 1..Len(MoodInputs) : MoodInputs[m] = call'.mood]

\* C18: a log_mood request adds an entry to mood_data only if its input
\* means a value between 1 and 10, and then (unless the store raises) it
\* adds exactly one entry, with that value in document and metadata and the
\* label of that value; for any other input it returns success = false with
\* "Invalid mood value" and leaves mood_data as it was.  Every stored entry
\* has the same mood_value, in 1..10, in document and metadata.
C18_MoodValidated ==
    [][call'.op = "log_mood" =>
          /\ IF MeansNext = 0
             THEN ret' = InvalidMood /\ mood_data' = mood_data
             ELSE IF faults' # faults
             THEN ~ret'.success /\ mood_data' = mood_data
             ELSE /\ ret'.success
                  /\ ret'.mood_entry["mood_value"] = MeansNext
                  /\ DOMAIN mood_data' = DOMAIN mood_data \cup {ret'.mood_entry["id"]}
                  /\ ret'.mood_entry["id"] \notin DOMAIN mood_data
                  /\ JsonLoads(mood_data'[ret'.mood_entry["id"]].document)
                        = ret'.mood_entry
                  /\ \A i \in 1..Len(mood_values) :
                        call'.mood = Str(mood_values[i].label) =>
                            ret'.mood_entry["mood_label"] = call'.mood
          /\ \A id \in DOMAIN mood_data : mood_data'[id] = mood_data[id]
          /\ \A id \in DOMAIN mood_data' :
                LET entry == JsonLoads(mood_data'[id].document)
                IN /\ entry["mood_value"] \in 1..10
                   /\ mood_data'[id].metadata["mood_value"] = entry["mood_value"]
                   /\ ValueMood(entry["mood_value"]) = entry["mood_label"]
      ]_vars

\* C18 witness: after an input that means 7 was logged, the input 11 was
\* rejected and mood_data still holds the one entry.
C18_Witness ==
    /\ call.op = "log_mood"
    /\ call.mood = PyInt(11)
    /\ ret = InvalidMood
    /\ Cardinality(DOMAIN mood_data) = 1
    /\ \E id \in DOMAIN mood_data :
          /\ JsonLoads(mood_data[id].document)["mood_value"] = 7
          /\ JsonLoads(mood_data[id].document)["timestamp"] = IsoFormat(0)
---------------------------------------------------------------------------
(* Properties of the bulk reads. *)

\* the records of a collection whose document is JSON text
Sound(collection) ==
    [id \in {i \in DOMAIN collection : JsonParses(collection[i].document)} |->
        collection[id]]

\* the mood entries of a collection that parse and lie in the range of the call
InRangeEntries ==
    {JsonLoads(call.collection[id].document) :
        id \in {i \in DOMAIN Sound(call.collection) :
                   LET t == JsonLoads(call.collection[i].document)["timestamp"].v[1]
                   IN call.start_date <= t /\ t <= call.end_date}}

C19_TaskWitness ==
    /\ ret # NoRet
    /\ ~call.raised
    /\ call.op = "get_all_tasks"
    /\ Cardinality(DOMAIN call.collection) = 3
    /\ Cardinality(DOMAIN Sound(call.collection)) = 2
    /\ Len(ret.tasks) = 2
---------------------------------------------------------------------------
(* Properties of the journal. *)

\* the ids of the stored journal entries of the user of the last request
Mine == {id \in DOMAIN journals : journals[id].metadata["userId"] = call.user_id}

\* the stored entry of an id
Stored(id) == JsonLoads(journals[id].document)

\* C20: get_latest_journal_entry(u), when the store read does not raise,
\* fails with "No journal entries found." if no entry of u is stored, and
\* otherwise returns a stored entry of u (never of another user) whose date
\* is the greatest among u's entries; that entry is the one u saved last,
\* with the text of that save.
C20_LatestOfUser ==
    (call.op = "get_latest_journal_entry" /\ (ret.success \/ ret.error # "store")) =>
        IF Mine = {} THEN ret = NoJournalEntries
        ELSE /\ ret.success
             /\ ret.entry["userId"] = call.user_id
             /\ \E id \in Mine :
                    /\ \A k \in DOMAIN Stored(id) : ret.entry[k] = Stored(id)[k]
                    /\ ret.entry["metadata"] = journals[id].metadata
                    /\ \A other \in Mine :
                           Stored(other)["date"].v[1] <= ret.entry["date"].v[1]
                    /\ \A other \in Mine : other <= id

\* C20 happens: u1 saved "a", u2 saved "b", u1 saved "b", and the read for
\* u1 returned the entry with text "b" among the three stored.
C20_Witness ==
    /\ call.op = "get_latest_journal_entry"
    /\ call.user_id = "u1"
    /\ Cardinality(DOMAIN journals) = 3
    /\ Cardinality(Mine) = 2
    /\ ret.success
    /\ ret.entry["text"] = Str(<<"b">>)
    /\ \E id \in Mine : Stored(id)["text"] = Str(<<"a">>)

\* the read of a user with no entry while another user has one
C20_NoneWitness ==
    /\ call.op = "get_latest_journal_entry"
    /\ Mine = {}
    /\ journals # EmptyCollection
    /\ ret = NoJournalEntries
---------------------------------------------------------------------------
(* Properties of the reflections. *)

\* the stored reflections that match the category of the last call
MatchingReflections ==
    {ReflectionOf(reflections[id].document, reflections[id].metadata) :
        id \in {i \in DOMAIN reflections :
                   Matches(reflections[i].metadata, ReflectionFilter(call.category))}}

\* C21: get_user_reflections(category, limit) returns at most limit
\* reflections (limit of them when that many match), each a stored one and
\* none twice, newest first; when a category is given each has exactly that
\* category; when the store raises it returns the empty list.
C21_LimitedNewestFirst ==
    call.op = "get_user_reflections" =>
        LET got == ret.reflections
        IN IF call.raised THEN got = <<>>
           ELSE /\ Len(got) <= call.limit
                /\ Len(got) = call.limit \/ Len(got) = Cardinality(MatchingReflections)
                /\ \A i \in DOMAIN got : got[i] \in MatchingReflections
                /\ \A i, j \in DOMAIN got :
                       i < j => /\ got[i] # got[j]
                                /\ got[i]["timestamp"].v[1] >= got[j]["timestamp"].v[1]
                /\ ReflectionFilter(call.category) # EmptyDict =>
                       \A i \in DOMAIN got : got[i]["category"] = call.category

\* C21 happens: with three reflections stored, two of the category asked
\* for, the read with limit 2 returned those two, the newer one first.
C21_Witness ==
    /\ call.op = "get_user_reflections"
    /\ ~call.raised
    /\ call.category = General
    /\ call.limit = 2
    /\ Cardinality(DOMAIN reflections) = 3
    /\ Len(ret.reflections) = 2
    /\ ret.reflections[1]["timestamp"].v[1] > ret.reflections[2]["timestamp"].v[1]

\* C30: when more than limit reflections match, get_user_reflections
\* returns the limit most recent of them: no stored matching reflection that
\* was left out is newer than one that was returned.
C30_MostRecent ==
    (call.op = "get_user_reflections" /\ ~call.raised) =>
        \A left \in MatchingReflections :
            (\A i \in DOMAIN ret.reflections : ret.reflections[i] # left) =>
                \A i \in DOMAIN ret.reflections :
                    left["timestamp"].v[1] <= ret.reflections[i]["timestamp"].v[1]
---------------------------------------------------------------------------
(* Properties of the statistics. *)

\* the collections of the long-term store
LongTermCollections ==
    {"reflections", "important_memories", "mood_data", "sos_requests", "user_profile",
     "journals"}

\* C22: get_memory_stats reports, for each collection of the long-term
\* store, its record count when its count call succeeds and 0 when it
\* raises, and the number of messages of the short-term buffer.
C22_EachCollectionCounted ==
    call.op = "get_memory_stats" =>
        /\ ret.short_term.message_count = Len(short_term_memory)
        /\ \A name \in LongTermCollections :
               /\ name \in DOMAIN ret.long_term
               /\ ret.long_term[name] = IF name \in call.failing THEN 0
                                         ELSE Cardinality(DOMAIN CollectionNamed(name))

\* the counts of the five collections get_memory_stats lists fail
\* independently
CountedIndependently ==
    call.op = "get_memory_stats" =>
        /\ ret.short_term.message_count = Len(short_term_memory)
        /\ \A name \in DOMAIN ret.long_term :
               ret.long_term[name] = IF name \in call.failing THEN 0
                                     ELSE Cardinality(DOMAIN CollectionNamed(name))
---------------------------------------------------------------------------
(* Properties of the task reads. *)

\* the tasks of the parseable task records of the store
StoredTasks ==
    {JsonLoads(important_memories[id].document) :
        id \in {i \in DOMAIN important_memories :
                   /\ important_memories[i].metadata["type"] = "task"
                   /\ JsonParses(important_memories[i].document)}}

\* a list as the set of its elements
Listed(tasks) == {tasks[i] : i \in DOMAIN tasks}

\* C27: when no store call raises, get_all_tasks() with no filter returns
\* every stored task, whatever the priorities and due dates of the stored
\* tasks, and update_task on the id of a stored task does not answer "Task
\* not found".
C27_EveryTaskListed ==
    faults = 0 =>
        /\ (call.op = "get_all_tasks" /\ call.status = "" /\ call.category = "") =>
               Listed(ret.tasks) = StoredTasks
        /\ (call.op = "update_task" /\ ret = TaskNotFound) =>
               \A t \in StoredTasks : t["id"] # call.task_id

\* the metadata of every stored task repeats the fields of its document
MetadataFollowsDocument ==
    \A id \in DOMAIN important_memories :
        LET record == important_memories[id]
        IN (record.metadata["type"] = "task" /\ JsonParses(record.document)) =>
              \A k \in {"id", "status", "priority", "category", "wellness_impact"} :
                  record.metadata[k] = JsonLoads(record.document)[k]

\* C28: the metadata of every stored task repeats the status, priority,
\* category, wellness_impact and id of its document, and, when no store
\* call raises, get_all_tasks(status, category) returns exactly the stored
\* tasks whose document has that status and that category.
C28_FilterExact ==
    /\ MetadataFollowsDocument
    /\ (faults = 0 /\ call.op = "get_all_tasks") =>
           Listed(ret.tasks) =
               {t \in StoredTasks :
                   /\ call.status # "" => t["status"] = call.status
                   /\ call.category # "" => t["category"] = call.category}
---------------------------------------------------------------------------
(* Properties of the record types. *)

\* the types a collection may hold
KindsOf(name) ==
    CASE name = "reflections" -> {"reflection"}
      [] name = "mood_data" -> {"mood_entry"}
      [] name = "sos_requests" -> {"sos_request"}
      [] name = "user_profile" -> {"user_profile"}
      [] name = "journals" -> {"journal_entry"}
      [] name = "important_memories" -> {"important_memory", "task"}

\* C24: every record of every collection carries a metadata type of the
\* kind of its collection, and every task get_all_tasks returns is the
\* document of a record of type task, never that of an important memory.
C24_TypedRecords ==
    /\ \A name \in LongTermCollections :
           \A id \in DOMAIN CollectionNamed(name) :
               /\ "type" \in DOMAIN CollectionNamed(name)[id].metadata
               /\ CollectionNamed(name)[id].metadata["type"] \in KindsOf(name)
    /\ call.op = "get_all_tasks" =>
           \A i \in DOMAIN ret.tasks :
               \E id \in DOMAIN important_memories :
                   /\ important_memories[id].metadata["type"] = "task"
                   /\ important_memories[id].document = JsonDumps(ret.tasks[i])

\* C24 happens: important_memories holds a task and a remembered text that
\* is JSON, and get_all_tasks returned the task alone.
C24_Witness ==
    /\ call.op = "get_all_tasks"
    /\ Len(ret.tasks) = 1
    /\ \E id \in DOMAIN important_memories :
           /\ important_memories[id].metadata["type"] = "important_memory"
           /\ JsonParses(important_memories[id].document)
---------------------------------------------------------------------------
(* Properties of the category read. *)

\* the step is a get_user_memory_category call of a client
ReadsCategory ==
    /\ call'.op = "get_user_memory_category"
    /\ worker' = worker
    /\ <<call', ret', faults'>> # <<call, ret, faults>>

\* C25: a get_user_memory_category(c) whose store read does not raise
\* returns a list that contains every fact the stored profile lists under c,
\* and the empty list when the profile lists none.
C25_CategoryListsFacts ==
    [][(ReadsCategory /\ faults' = faults) =>
          LET profile == IF DOMAIN user_profile = {} THEN EmptyDict
                         ELSE StoredProfile(user_profile)
              stored == IF call'.category \in DOMAIN profile
                           /\ IsList(profile[call'.category])
                        THEN profile[call'.category].v ELSE <<>>
          IN /\ \A i \in DOMAIN stored :
                    \E j \in DOMAIN ret'.facts.v : ret'.facts.v[j] = stored[i]
             /\ stored = <<>> => ret'.facts = List(<<>>)
      ]_vars
---------------------------------------------------------------------------
(* Properties of the conversation buffer. *)

\* C23: whenever no request is between its two appends, the short-term
\* buffer holds an even number of messages that alternate human, ai, each
\* pair being the message of one request and its reply.
C23_PairsAlternate ==
    (\A w \in Workers : worker[w].pc # "add_ai_message") =>
        /\ Len(short_term_memory) % 2 = 0
        /\ \A i \in DOMAIN short_term_memory :
               /\ short_term_memory[i].role = IF i % 2 = 1 THEN "human" ELSE "ai"
               /\ i % 2 = 0 =>
                      short_term_memory[i].content = short_term_memory[i - 1].content

\* the steps of clear_short_term_memory leave every collection as it is
\* and empty the buffer
ClearKeepsStore ==
    [][(short_term_memory' = <<>> /\ short_term_memory # <<>>) =>
          UNCHANGED <<user_profile, important_memories, mood_data, journals,
                      reflections, sos_requests>>]_vars

\* how many messages of a role the buffer holds
RECURSIVE CountRole(_, _)
CountRole(messages, role) ==
    IF messages = <<>> THEN 0
    ELSE CountRole(SubSeq(messages, 1, Len(messages) - 1), role)
         + (IF messages[Len(messages)].role = role THEN 1 ELSE 0)

\* what each step of a request does to the profile and to the buffer
OrderedSteps(w) ==
    Steps(w) =>
        /\ user_profile' # user_profile =>
               /\ worker[w].pc \in {"update_update", "update_add", "update_fallback"}
               /\ worker'[w].pc = "predict"
        /\ worker[w].pc \in {"predict", "add_ai_message"} =>
               /\ user_profile' = user_profile
               /\ Truthy(worker[w].new_facts) => worker[w].result # NoRet
        /\ worker[w].pc \notin {"predict", "add_ai_message"} =>
               short_term_memory' = short_term_memory
        /\ (worker[w].pc = "predict" /\ worker'[w].pc = "idle") =>
               /\ short_term_memory' = short_term_memory
               /\ ret' = ErrorResponse
        /\ (worker[w].pc = "predict" /\ worker'[w].pc # "idle") =>
               /\ worker'[w].pc = "add_ai_message"
               /\ short_term_memory' =
                      Append(short_term_memory, HumanMessage(worker[w].message))
        /\ worker[w].pc = "add_ai_message" =>
               /\ worker'[w].pc = "idle"
               /\ short_term_memory' =
                      Append(short_term_memory, AIMessage(worker[w].message))
               /\ ~ret'.error
               /\ ret'.feedback = MemoryFeedback(worker[w].new_facts)

\* C26: within one process_message request the profile is written only
\* before the model call, and update_user_profile has returned by then; the
\* buffer is untouched until the model has answered, then the user message
\* and the reply are appended, once each, and the response with the
\* feedback text is returned; a request whose model call fails appends
\* nothing.  So the buffer holds one human message for each reply plus one
\* for each request between its two appends.
C26_OrderedWithinRequest ==
    /\ [][\A w \in Workers : OrderedSteps(w)]_vars
    /\ [](CountRole(short_term_memory, "human") =
             CountRole(short_term_memory, "ai")
             + Cardinality({w \in Workers : worker[w].pc = "add_ai_message"}))

\* C26 happens: a request that stored a fact has returned its reply with
\* the feedback text, and the buffer holds its turn.
C26_Witness ==
    /\ \A w \in Workers : worker[w].pc = "idle"
    /\ ret # NoRet /\ ~ret.error /\ DOMAIN ret.feedback # {}
    /\ Len(short_term_memory) = 2
    /\ short_term_memory[1].role = "human" /\ short_term_memory[2].role = "ai"
    /\ \A k \in DOMAIN ret.feedback :
           HoldsFact(StoredProfile(user_profile), k, ret.feedback[k])

\* C29: when the model call of a request fails, the request returns the
\* error response, the buffer and the stored profile are as they were
\* before the call, the profile update of the request has already returned,
\* and when it returned updated the stored profile holds the facts extracted
\* from the message.
C29_ModelFailureKeepsBuffer ==
    [][\A w \in Workers :
         (Steps(w) /\ worker[w].pc = "predict" /\ worker'[w].pc = "idle") =>
             /\ ret' = ErrorResponse
             /\ short_term_memory' = short_term_memory
             /\ user_profile' = user_profile
             /\ Truthy(worker[w].new_facts) =>
                    /\ worker[w].result # NoRet
                    /\ worker[w].result.updated =>
                           \A k \in DOMAIN worker[w].new_facts :
                               HoldsFact(StoredProfile(user_profile'), k,
                                         worker[w].new_facts[k])
      ]_vars

\* C29 happens: the first request stored a pet and then its model call
\* failed: the error response is returned, the profile holds the pet and the
\* buffer is empty.
C29_Witness ==
    /\ \A w \in Workers : worker[w].pc = "idle"
    /\ requests = 1
    /\ faults = 0
    /\ ret = ErrorResponse
    /\ short_term_memory = <<>>
    /\ "pets" \in DOMAIN StoredProfile(user_profile)

=============================================================================
